---- MODULE Spec2Model ----
(***************************************************************************)
(* Model of the OCR helper process of lextpf/sage                          *)
(* (src/internal/tess/ocr.py): the frame loop of main() with the lazily    *)
(* constructed recognition engine, and the pure text functions of the      *)
(* consensus engine (bounded_levenshtein, align_to_reference,              *)
(* position_vote, pattern_score, best_text_window, normalize_ocr_text,     *)
(* select_consensus_candidate).                                            *)
(*                                                                         *)
(* Strings are sequences of one-character strings.  Scores and weights are *)
(* the code's floating-point values held as integers in units of 1/10000;  *)
(* confidences are integers in units of 1/100.                             *)
(***************************************************************************)
EXTENDS Integers, Sequences, FiniteSets, TLC

VARIABLES
    lev,    \* bounded_levenshtein under test: inputs, result, stage
    txt,    \* normalize_ocr_text / best_text_window under test
    cons,   \* select_consensus_candidate under test
    call,   \* one call of another pure function: its name, arguments, result
    pc,     \* main(): position of the frame loop
    stream, \* main(): the units arriving on stdin
    nread,  \* main(): how many units of the stream were taken so far
    out,    \* main(): the lines written to stdout, each with its unit
    reader, \* main(): the engine instance (0 = None)
    use_gpu,\* main(): the backend flag ensure_reader() keeps
    hist,   \* history of engine constructions (observation only)
    fast_mode, \* main(): FAST_MODE, read from the environment at start
    passes, \* the calls of run_ocr_on_crop so far (observation only)
    gamma_lut_cache \* _gamma_lut_cache, the tables of apply_gamma_correction

vars == <<lev, txt, cons, call, pc, stream, nread, out, reader, use_gpu, hist,
          fast_mode, passes, gamma_lut_cache>>

-----------------------------------------------------------------------------
(* Generic helpers *)

Min2(x, y) == IF x <= y THEN x ELSE y
Max2(x, y) == IF x >= y THEN x ELSE y
Abs(x) == IF x < 0 THEN -x ELSE x

SeqsUpTo(S, n) == UNION {[1..k -> S] : k \in 0..n}

\* F applied to the value of v, v evaluated once
Once(v, F(_)) == CHOOSE r \in {F(x) : x \in {v}} : TRUE

RECURSIVE SumSeq(_)
SumSeq(s) == IF s = <<>> THEN 0 ELSE Head(s) + SumSeq(Tail(s))

RECURSIVE Flatten(_)
Flatten(ss) == IF ss = <<>> THEN <<>> ELSE Head(ss) \o Flatten(Tail(ss))

\* s[i:j] of Python for 0 <= i <= j <= len(s)
Slice(s, i, j) == IF j <= i THEN <<>> ELSE SubSeq(s, i + 1, j)

-----------------------------------------------------------------------------
(* Bounds of the checked instances *)

MaxLevLen == 4
MaxDist == 3

-----------------------------------------------------------------------------
(* bounded_levenshtein, ocr.py 603-622 *)

\* One row of the table: cur[0] = i, then cur[j] from prev and cur[j-1].
\* Rows are sequences indexed 1..lb+1 for the code's 0..lb.
RECURSIVE LevRow(_, _, _, _, _)
LevRow(prev, ca, b, i, cur) ==
    LET j == Len(cur)
    IN  IF j > Len(b) THEN cur
        ELSE LET cost == IF ca = b[j] THEN 0 ELSE 1
                 v == Min2(Min2(prev[j + 1] + 1, cur[j] + 1), prev[j] + cost)
             IN  LevRow(prev, ca, b, i, Append(cur, v))

RowMin(row) == CHOOSE m \in {row[k] : k \in 1..Len(row)} :
                   \A k \in 1..Len(row) : m <= row[k]

RECURSIVE LevRowsMutEarly(_, _, _, _, _)
LevRowsMutEarly(a, b, max_dist, i, prev) ==
    IF i > Len(a) THEN prev[Len(b) + 1]
    ELSE LET cur == LevRow(prev, a[i], b, i, <<i>>)
         IN  IF RowMin(cur) >= max_dist THEN max_dist + 1
             ELSE LevRowsMutEarly(a, b, max_dist, i + 1, cur)

RECURSIVE LevRows(_, _, _, _, _)
LevRows(a, b, max_dist, i, prev) ==
    IF i > Len(a) THEN prev[Len(b) + 1]
    ELSE LET cur == LevRow(prev, a[i], b, i, <<i>>)
         IN  IF RowMin(cur) > max_dist THEN max_dist + 1
             ELSE LevRows(a, b, max_dist, i + 1, cur)

\* faulty variant: the length short-circuit answers max_dist instead of max_dist + 1
bounded_levenshtein_sentinel(a, b, max_dist) ==
    IF Abs(Len(a) - Len(b)) > max_dist THEN max_dist
    ELSE LevRows(a, b, max_dist, 1, [j \in 1..(Len(b) + 1) |-> j - 1])

\* faulty variant: the early exit fires on row_min >= max_dist
bounded_levenshtein_early(a, b, max_dist) ==
    IF Abs(Len(a) - Len(b)) > max_dist THEN max_dist + 1
    ELSE LevRowsMutEarly(a, b, max_dist, 1, [j \in 1..(Len(b) + 1) |-> j - 1])

bounded_levenshtein(a, b, max_dist) ==
    IF Abs(Len(a) - Len(b)) > max_dist THEN max_dist + 1
    ELSE LevRows(a, b, max_dist, 1, [j \in 1..(Len(b) + 1) |-> j - 1])

\* The unbounded edit distance, by the textbook recurrence (the reference the
\* bounded function is compared with).
Levenshtein(a, b) ==
    LET D[i \in 0..Len(a), j \in 0..Len(b)] ==
            IF i = 0 THEN j
            ELSE IF j = 0 THEN i
            ELSE Min2(Min2(D[i - 1, j] + 1, D[i, j - 1] + 1),
                      D[i - 1, j - 1] + (IF a[i] = b[j] THEN 0 ELSE 1))
    IN  D[Len(a), Len(b)]

-----------------------------------------------------------------------------
(* Characters: ALLOWLIST, ocr.py 16, and the classes str.isdigit / str.isalnum *)
(* and the range tests of pattern_score distinguish                          *)

Upper == {"A","B","C","D","E","F","G","H","I","J","K","L","M",
          "N","O","P","Q","R","S","T","U","V","W","X","Y","Z"}
Lower == {"a","b","c","d","e","f","g","h","i","j","k","l","m",
          "n","o","p","q","r","s","t","u","v","w","x","y","z"}
Digit == {"0","1","2","3","4","5","6","7","8","9"}
Symbol == {"!","@","#","$","%","&","*","+","-","=",".","_","?"}
ALLOWLIST == Upper \cup Lower \cup Digit \cup Symbol

isdigit(ch) == ch \in Digit
isalnum(ch) == ch \in Upper \cup Lower \cup Digit

Count(s, P(_)) == Cardinality({k \in 1..Len(s) : P(s[k])})
Contains(s, ch) == \E k \in 1..Len(s) : s[k] = ch

-----------------------------------------------------------------------------
(* sanitize_text, ocr.py 596-600 *)

InAllowlist(ch) == ch \in ALLOWLIST

\* variant that keeps every character
sanitize_text_keep(text) == text

sanitize_text(text) == SelectSeq(text, InAllowlist)

-----------------------------------------------------------------------------
(* normalize_ocr_text, ocr.py 789-795 *)

HasDoubleUnderscore(s) == \E k \in 1..(Len(s) - 1) : s[k] = "_" /\ s[k + 1] = "_"

\* str.replace("__", "_"): one left-to-right pass over non-overlapping matches
RECURSIVE ReplaceDoubleUnderscore(_)
ReplaceDoubleUnderscore(s) ==
    IF Len(s) < 2 THEN s
    ELSE IF s[1] = "_" /\ s[2] = "_"
         THEN <<"_">> \o ReplaceDoubleUnderscore(Tail(Tail(s)))
         ELSE <<s[1]>> \o ReplaceDoubleUnderscore(Tail(s))

RECURSIVE CollapseUnderscores(_)
CollapseUnderscores(s) ==
    IF HasDoubleUnderscore(s) THEN CollapseUnderscores(ReplaceDoubleUnderscore(s))
    ELSE s

\* faulty variant: a single replace pass instead of the while loop
normalize_ocr_text_once(text) == ReplaceDoubleUnderscore(sanitize_text(text))

normalize_ocr_text(text) == CollapseUnderscores(sanitize_text(text))

-----------------------------------------------------------------------------
(* pattern_score, ocr.py 721-751 (units of 1/10000) *)

IsUpper(ch) == ch \in Upper
IsLower(ch) == ch \in Lower
IsSymbolLike(ch) == ~isalnum(ch)

FirstIndex(s, ch) == CHOOSE k \in 1..Len(s) : s[k] = ch /\ \A m \in 1..(k - 1) : s[m] # ch
LastIndex(s, ch) == CHOOSE k \in 1..Len(s) : s[k] = ch /\ \A m \in (k + 1)..Len(s) : s[m] # ch

PatternClassScore(text) ==
    LET upp == Count(text, IsUpper)
        low == Count(text, IsLower)
        dig == Count(text, isdigit)
        sym == Count(text, IsSymbolLike)
        hasAt == Contains(text, "@")
        hasUs == Contains(text, "_")
    IN    (IF upp + low >= 3 THEN 16000 ELSE 0)
        + (IF dig >= 2 THEN 12000 ELSE 0)
        + (IF sym >= 2 THEN 15000 ELSE 0)
        + (IF hasAt THEN 8000 ELSE 0)
        + (IF hasUs THEN 7000 ELSE 0)
        + (IF hasAt /\ hasUs /\ FirstIndex(text, "@") < LastIndex(text, "_")
           THEN 21000 ELSE 0)
        + (IF Contains(text, "?") THEN 5000 ELSE 0)

\* faulty variant: the penalty for more than 18 characters is missing
pattern_score_nolong(text) ==
    IF text = <<>> THEN -9990000
    ELSE LET l == Len(text)
         IN  PatternClassScore(text)
             + (IF 12 <= l /\ l <= 18 THEN 28000
                ELSE IF l > 18 THEN 0
                ELSE IF l < 8 THEN -((8 - l) * 15000)
                ELSE 0)

pattern_score(text) ==
    IF text = <<>> THEN -9990000
    ELSE LET l == Len(text)
         IN  PatternClassScore(text)
             + (IF 12 <= l /\ l <= 18 THEN 28000
                ELSE IF l > 18 THEN -((l - 18) * 19000)
                ELSE IF l < 8 THEN -((8 - l) * 15000)
                ELSE 0)

-----------------------------------------------------------------------------
(* best_text_window, ocr.py 754-786 (units of 1/10000) *)

length_prior(l) ==
    IF 14 <= l /\ l <= 18 THEN 18000
    ELSE IF l > 18 THEN 18000 - (l - 18) * 12000
    ELSE 18000 - (14 - l) * 5000

\* the trailing isolated digit test of lines 770 and 781
TrailingIsolatedDigit(s) ==
    Len(s) >= 2 /\ isdigit(s[Len(s)]) /\ ~isdigit(s[Len(s) - 1])

WindowScore(sub) ==
    pattern_score(sub) + Len(sub) * 2200 + length_prior(Len(sub))
    - (IF TrailingIsolatedDigit(sub) THEN 3000 ELSE 0)

\* The two nested loops of lines 775-785, in the code's order: win_len
\* ascending, i ascending; a window replaces the best only when its score
\* exceeds it by more than 1e-6, which in these units is a strict increase.
RECURSIVE WindowScan(_, _, _, _, _, _)
WindowScan(text, win_len, max_len, i, best, best_score) ==
    LET n == Len(text)
    IN  IF win_len > max_len THEN best
        ELSE IF i > n - win_len
             THEN WindowScan(text, win_len + 1, max_len, 0, best, best_score)
        ELSE LET sub == Slice(text, i, i + win_len)
                 score == WindowScore(sub)
             IN  IF score > best_score
                 THEN WindowScan(text, win_len, max_len, i + 1, sub, score)
                 ELSE WindowScan(text, win_len, max_len, i + 1, best, best_score)

\* faulty variant: best_score is not updated when a better window is found, so every
\* later window is compared with the score of the whole text
RECURSIVE WindowScanStale(_, _, _, _, _, _)
WindowScanStale(text, win_len, max_len, i, best, best_score) ==
    LET n == Len(text)
    IN  IF win_len > max_len THEN best
        ELSE IF i > n - win_len
             THEN WindowScanStale(text, win_len + 1, max_len, 0, best, best_score)
        ELSE LET sub == Slice(text, i, i + win_len)
             IN  IF WindowScore(sub) > best_score
                 THEN WindowScanStale(text, win_len, max_len, i + 1, sub, best_score)
                 ELSE WindowScanStale(text, win_len, max_len, i + 1, best, best_score)

best_text_window_stale(raw) ==
    LET text == sanitize_text(raw)
        n == Len(text)
    IN  IF text = <<>> THEN <<>>
        ELSE WindowScanStale(text, IF n >= 12 THEN 12 ELSE n, Min2(18, n), 0,
                             text, WindowScore(text))

best_text_window(raw) ==
    LET text == sanitize_text(raw)
        n == Len(text)
    IN  IF text = <<>> THEN <<>>
        ELSE WindowScan(text, IF n >= 12 THEN 12 ELSE n, Min2(18, n), 0,
                        text, WindowScore(text))

-----------------------------------------------------------------------------
(* align_to_reference, ocr.py 625-680 *)

\* None in a slot of the alignment
NoChar == "None"

\* dp, lines 633-659: rows[i + 1][j + 1] is dp[i][j]; a row is built from the
\* previous one by the same three-way minimum as in bounded_levenshtein.
RECURSIVE AlignTable(_, _, _)
AlignTable(reference, text, rows) ==
    IF Len(rows) > Len(reference) THEN rows
    ELSE LET i == Len(rows)
         IN  AlignTable(reference, text,
                        Append(rows, LevRow(rows[i], reference[i], text, i, <<i>>)))

\* faulty variant: the walk back always takes the diagonal
BackOp_diagonal(reference, text, rows, i, j) == 0

\* back[i][j] for i, j >= 1, lines 646-659: substitute (0) unless delete (1) is
\* strictly better, insert (2) only when strictly better than both.
BackOp(reference, text, rows, i, j) ==
    LET sub == rows[i][j] + (IF reference[i] = text[j] THEN 0 ELSE 1)
        delete == rows[i][j + 1] + 1
        insert == rows[i + 1][j] + 1
    IN  IF insert < Min2(sub, delete) THEN 2
        ELSE IF delete < sub THEN 1
        ELSE 0

\* the walk back of lines 661-680
RECURSIVE AlignTrace(_, _, _, _, _, _)
AlignTrace(reference, text, rows, i, j, aligned) ==
    IF i = 0 \/ j = 0 THEN aligned
    ELSE LET op == BackOp(reference, text, rows, i, j)
         IN  IF op = 0
             THEN AlignTrace(reference, text, rows, i - 1, j - 1,
                             [aligned EXCEPT ![i] = text[j]])
             ELSE IF op = 1
             THEN AlignTrace(reference, text, rows, i - 1, j, aligned)
             ELSE AlignTrace(reference, text, rows, i, j - 1, aligned)

align_to_reference(reference, text) ==
    LET m == Len(reference)
        n == Len(text)
    IN  IF m = 0 THEN <<>>
        ELSE IF n = 0 THEN [k \in 1..m |-> NoChar]
        ELSE Once(AlignTable(reference, text, <<[j \in 1..(n + 1) |-> j - 1]>>),
                  LAMBDA rows :
                      AlignTrace(reference, text, rows, m, n, [k \in 1..m |-> NoChar]))

-----------------------------------------------------------------------------
(* position_vote, ocr.py 683-718.  A variant is [text, weight]; weights are  *)
(* in units of 1/10000.                                                      *)

\* max(0.01, float(weight))
VoteWeight(w) == Max2(100, w)

\* weight / (1 + 0.35 * |len(t) - target_len|), line 706, kept to 1/20 unit
ScaledVoteWeight(w, d) == (VoteWeight(w) * 400) \div (20 + 7 * d)

position_vote(variants) ==
    IF variants = <<>> THEN <<>>
    ELSE IF Len(variants) = 1 THEN variants[1].text
    ELSE LET nv == Len(variants)
             lenOf(k) == Len(variants[k].text)
             \* len_weight, lines 689-692
             lw(l) == SumSeq([k \in 1..nv |->
                         IF lenOf(k) = l THEN VoteWeight(variants[k].weight) ELSE 0])
             \* target_len, line 693: the first-inserted length of maximal weight
             tk == CHOOSE k \in 1..nv : \A m \in 1..nv :
                       /\ lw(lenOf(m)) <= lw(lenOf(k))
                       /\ (m < k => lw(lenOf(m)) < lw(lenOf(k)))
             target_len == lenOf(tk)
             \* reference, lines 694-699: the first variant maximal in
             \* (-|len - target_len|, weight)
             closer(m, k) ==
                 \/ Abs(lenOf(m) - target_len) < Abs(lenOf(k) - target_len)
                 \/ /\ Abs(lenOf(m) - target_len) = Abs(lenOf(k) - target_len)
                    /\ VoteWeight(variants[m].weight) > VoteWeight(variants[k].weight)
             rk == CHOOSE k \in 1..nv : \A m \in 1..nv :
                       /\ ~closer(m, k)
                       /\ (m < k => closer(k, m))
             reference == IF variants[rk].text = <<>> THEN variants[1].text
                          ELSE variants[rk].text
             wt == <<>> \o [k \in 1..nv |->
                       ScaledVoteWeight(variants[k].weight, Abs(lenOf(k) - target_len))]
             \* votes of one position, lines 702-713, and its plurality
             \* character, line 715: the first-inserted key of maximal weight
             voters(aligned, i) == {k \in 1..nv : lenOf(k) > 0 /\ aligned[k][i] # NoChar}
             total(aligned, w, i, ch) ==
                 SumSeq([k \in 1..nv |->
                     IF k \in voters(aligned, i) /\ aligned[k][i] = ch THEN w[k] ELSE 0])
             winner(ref, aligned, w, i) ==
                 IF voters(aligned, i) = {} THEN ref[i]
                 ELSE LET k == CHOOSE k \in voters(aligned, i) : \A m \in voters(aligned, i) :
                                   /\ total(aligned, w, i, aligned[m][i])
                                        <= total(aligned, w, i, aligned[k][i])
                                   /\ (m < k => total(aligned, w, i, aligned[m][i])
                                                  < total(aligned, w, i, aligned[k][i]))
                      IN  aligned[k][i]
         IN  Once(reference, LAMBDA ref :
             Once(<<>> \o [k \in 1..nv |-> align_to_reference(ref, variants[k].text)],
                  LAMBDA aligned :
             Once(wt, LAMBDA w :
                 [i \in 1..Len(ref) |-> winner(ref, aligned, w, i)])))

-----------------------------------------------------------------------------
(* Detections and candidates.  A detection is [text, conf] (its box plays no *)
(* part in scoring), conf in units of 1/100; a candidate is                  *)
(* [results, combined], the pair run_ocr_on_crop returns.                    *)

\* str.strip() for the blank character
RECURSIVE StripLeft(_)
StripLeft(s) == IF s # <<>> /\ Head(s) = " " THEN StripLeft(Tail(s)) ELSE s

RECURSIVE StripRight(_)
StripRight(s) ==
    IF s # <<>> /\ s[Len(s)] = " " THEN StripRight(SubSeq(s, 1, Len(s) - 1)) ELSE s

strip(s) == StripRight(StripLeft(s))

\* candidate_confidence, ocr.py 547-559, in units of 1/10000
candidate_confidence(results) ==
    LET w(k) == IF strip(results[k].text) = <<>> THEN 0
                ELSE Max2(1, Len(strip(results[k].text)))
        weighted == SumSeq([k \in 1..Len(results) |-> results[k].conf * 100 * w(k)])
        total_w == SumSeq([k \in 1..Len(results) |-> w(k)])
    IN  IF total_w <= 0 THEN 0 ELSE weighted \div total_w

\* length of the run of digits that ends the text, lines 535-540
RECURSIVE TailDigits(_)
TailDigits(s) ==
    IF s # <<>> /\ isdigit(s[Len(s)]) THEN 1 + TailDigits(SubSeq(s, 1, Len(s) - 1))
    ELSE 0

\* score_result, ocr.py 519-544, in units of 1/10000
score_result(results, combined) ==
    IF combined = <<>> THEN 0
    ELSE LET n == Len(combined)
             avg_conf == SumSeq([k \in 1..Len(results) |-> results[k].conf * 100])
                         \div Max2(1, Len(results))
             symbol_count == Count(combined, IsSymbolLike)
             symbol_bonus == Min2(26000, symbol_count * 4500)
                             - (IF n > 18 THEN (n - 18) * 21000 ELSE 0)
             triples == Cardinality({i \in 2..(n - 1) :
                            /\ ~isalnum(combined[i - 1])
                            /\ isdigit(combined[i])
                            /\ ~isalnum(combined[i + 1])})
             tail_digits == TailDigits(combined)
             penalty == triples * 16000
                        + (IF tail_digits >= 2 THEN (tail_digits - 1) * 13500 ELSE 0)
         IN  n * 16000 + avg_conf * 4 + symbol_bonus - penalty

-----------------------------------------------------------------------------
(* select_consensus_candidate, ocr.py 803-875 *)

\* lines 804-811: an entry is [text, conf, base]; empty readings are dropped
ConsensusEntries(candidates) ==
    LET entry(k) ==
            Once(normalize_ocr_text(best_text_window(candidates[k].combined)),
                 LAMBDA text :
                     [text |-> text,
                      conf |-> candidate_confidence(candidates[k].results),
                      base |-> score_result(candidates[k].results, text)])
        all == [k \in 1..Len(candidates) |-> entry(k)]
        kept(e) == e.text # <<>>
    IN  SelectSeq(all, kept)

\* sorted(entries, key=base, reverse=True), line 824: stable, so entries of
\* equal base keep their order
RECURSIVE InsertByBase(_, _)
InsertByBase(sorted, e) ==
    IF sorted = <<>> THEN <<e>>
    ELSE IF Head(sorted).base >= e.base
         THEN <<Head(sorted)>> \o InsertByBase(Tail(sorted), e)
         ELSE <<e>> \o sorted

\* faulty variant: the entries are taken in their order of arrival
SortByBaseDesc_arrival(entries) == entries

RECURSIVE SortByBaseDesc(_)
SortByBaseDesc(entries) ==
    IF entries = <<>> THEN <<>>
    ELSE InsertByBase(SortByBaseDesc(SubSeq(entries, 1, Len(entries) - 1)),
                      entries[Len(entries)])

\* lines 825-832: does the entry join the cluster with this seed
ConsensusAdmits(seed, text) ==
    LET max_dist == IF Len(text) <= 18 THEN 2 ELSE 3
    IN  /\ Abs(Len(seed) - Len(text)) <= max_dist
        /\ bounded_levenshtein(seed, text, max_dist) <= max_dist

\* lines 826-844 for one entry: the first admitting cluster takes it (and
\* takes it as seed when its base is higher), else it opens a cluster
PlaceConsensusEntry(clusters, e) ==
    LET admitting == {c \in 1..Len(clusters) : ConsensusAdmits(clusters[c].seed, e.text)}
    IN  IF admitting = {}
        THEN Append(clusters, [seed |-> e.text, best_base |-> e.base, variants |-> <<e>>])
        ELSE LET c == CHOOSE c \in admitting : \A c2 \in admitting : c <= c2
                 old == clusters[c]
             IN  [clusters EXCEPT ![c] =
                     [seed |-> IF e.base > old.best_base THEN e.text ELSE old.seed,
                      best_base |-> IF e.base > old.best_base THEN e.base ELSE old.best_base,
                      variants |-> Append(old.variants, e)]]

RECURSIVE ConsensusClusters(_, _)
ConsensusClusters(sorted, clusters) ==
    IF sorted = <<>> THEN clusters
    ELSE Once(PlaceConsensusEntry(clusters, Head(sorted)),
              LAMBDA placed : ConsensusClusters(Tail(sorted), placed))

MaxOfSeq(q) == CHOOSE m \in {q[k] : k \in 1..Len(q)} : \A k \in 1..Len(q) : q[k] <= m

\* variant without the vote: the cluster answers with its seed
ClusterVoted_seed(cluster) ==
    normalize_ocr_text(best_text_window(cluster.seed))

\* variant whose cluster answer is the raw vote, without the window and the
\* normalization of line 852
ClusterVoted_raw(cluster) ==
    LET vs == cluster.variants
    IN  position_vote(
            [k \in 1..Len(vs) |->
                [text |-> vs[k].text,
                 weight |-> Max2(500, vs[k].conf) * Max2(1, Len(vs[k].text))]])

\* lines 850-866 for one cluster: its voted text and its score
ClusterVoted(cluster) ==
    LET vs == cluster.variants
    IN  Once(position_vote(
                 [k \in 1..Len(vs) |->
                     [text |-> vs[k].text,
                      weight |-> Max2(500, vs[k].conf) * Max2(1, Len(vs[k].text))]]),
             LAMBDA voted : normalize_ocr_text(best_text_window(voted)))

ClusterScore(cluster, voted, target_len) ==
    LET vs == cluster.variants
        hits == Len(vs)
        avg_base == SumSeq([k \in 1..hits |-> vs[k].base]) \div Max2(1, hits)
        max_conf == MaxOfSeq([k \in 1..hits |-> vs[k].conf])
        len_bonus == Max2(0, 46000 - Abs(Len(voted) - target_len) * 14500)
    IN  (avg_base * 95) \div 100
        + (pattern_score(voted) * 135) \div 100
        + (max_conf * 24) \div 10
        + Min2(3, hits) * 11000
        + (len_bonus * 35) \div 100

\* lines 846-870: the first cluster of maximal score among those whose voted
\* text is not empty
RECURSIVE BestCluster(_, _, _, _)
BestCluster(clusters, target_len, c, best) ==
    IF c > Len(clusters) THEN best
    ELSE Once(ClusterVoted(clusters[c]), LAMBDA voted :
         Once(ClusterScore(clusters[c], voted, target_len), LAMBDA score :
             IF voted # <<>> /\ score > best.score
             THEN Once([text |-> voted,
                        conf |-> MaxOfSeq([k \in 1..Len(clusters[c].variants) |->
                                              clusters[c].variants[k].conf]),
                        score |-> score],
                       LAMBDA better : BestCluster(clusters, target_len, c + 1, better))
             ELSE BestCluster(clusters, target_len, c + 1, best)))

select_consensus_candidate(candidates) ==
    Once(ConsensusEntries(candidates), LAMBDA entries :
        LET ne == Len(entries)
            \* len_weights and target_len, lines 816-820 (weights times 20)
            lw(l) == SumSeq([k \in 1..ne |->
                        IF Len(entries[k].text) = l
                        THEN 20 * Max2(2000, entries[k].conf * 2) + Max2(0, entries[k].base)
                        ELSE 0])
            tk == CHOOSE k \in 1..ne : \A m \in 1..ne :
                      /\ lw(Len(entries[m].text)) <= lw(Len(entries[k].text))
                      /\ (m < k => lw(Len(entries[m].text)) < lw(Len(entries[k].text)))
            \* line 873: the first entry of maximal base
            fk == CHOOSE k \in 1..ne : \A m \in 1..ne :
                      /\ entries[m].base <= entries[k].base
                      /\ (m < k => entries[m].base < entries[k].base)
        IN  IF ne = 0 THEN [text |-> <<>>, conf |-> 0]
            ELSE Once(ConsensusClusters(SortByBaseDesc(entries), <<>>), LAMBDA clusters :
                 Once(BestCluster(clusters, Len(entries[tk].text), 1,
                                  [text |-> <<>>, conf |-> 0, score |-> -2000000000]),
                      LAMBDA best :
                          IF best.text = <<>>
                          THEN [text |-> entries[fk].text, conf |-> entries[fk].conf]
                          ELSE [text |-> best.text, conf |-> best.conf])))

-----------------------------------------------------------------------------
(* Inputs of the checked instances of the pure functions *)

LevAlphabet == {"a", "b"}
NormAlphabet == {"_", "a", " "}
MaxNormLen == 6

\* Readings as the engine returns them: a core with up to MaxNoise noise
\* characters accreted in front and a short noise tail.
NoiseAlphabet == {"@", "_", "7"}
MaxNoise == 3
NoiseTails == {<<>>, <<"_">>, <<"7">>, <<"@">>, <<"_", "7">>, <<"7", "7">>}
Cores == {
    <<>>,
    <<"T", "3", "*", "1", "-", "B", "?", "+">>,
    <<"a", "a", "a", "a", "a", "a", "a", "a", "a", "a", "a", "a", "1">>,
    <<"T", "3", "*", "1", "-", "B", "?", "+", "A", "c", "J", "3", "@", "_", "9", "L">>,
    <<"a", "b", "c", "d", "e", "f", "g", "h", "i", "j", "k", "l", "m", "n", "o", "p", "q">>,
    <<"T", "3", "*", "1", " ", "-", "B", "?", "+", " ", "A", "c", "J", "3", "@", "_", "_", "9", "L">>,
    <<"A", "b", "1", "A", "b", "1", "A", "b", "1", "A", "b", "1", "A", "b", "1", "A", "b", "1", "A", "b">>,
    <<"a", "a", "a", "a", "a", "a", "a", "a", "a", "a", "a", "a", "a", "a", "a", "a", "a", "a", "?", "a">>
}
WindowInputs == {p \o c \o q : p \in SeqsUpTo(NoiseAlphabet, MaxNoise),
                               c \in Cores,
                               q \in NoiseTails}

\* Readings for the consensus engine: the example token of the tests and a
\* token with digit runs, cut to 1..MaxReadLen characters, each with the
\* noisy readings at most two edits away (one or two single-character edits
\* with the noise character, a rotation, or a transposition).
ExampleToken == <<"T", "3", "*", "1", "-", "B", "?", "+", "A", "c", "J", "3", "@", "_", "9", "L">>
ExampleNoisy == <<"T", "3", "1", "-", "B", "7", "+", "A", "c", "J", "3", "@", "_", "9", "L">>
DigitRunToken == <<"x", "a", "b", "1", "2", "x", "a", "b", "1", "2", "x", "a", "b", "1", "2", "x">>
MaxReadLen == 5
ReadingNoise == "7"
ConfLevels == {80, 3}

OneEdit(s) ==
       {SubSeq(s, 1, k - 1) \o SubSeq(s, k + 1, Len(s)) : k \in 1..Len(s)}
    \cup {[s EXCEPT ![k] = ReadingNoise] : k \in 1..Len(s)}
    \cup {SubSeq(s, 1, k) \o <<ReadingNoise>> \o SubSeq(s, k + 1, Len(s)) : k \in 0..Len(s)}

NoisyReadings(s) ==
       OneEdit(s)
    \cup UNION {OneEdit(t) : t \in OneEdit(s)}
    \cup {Tail(s) \o <<Head(s)>>, <<s[Len(s)]>> \o SubSeq(s, 1, Len(s) - 1)}
    \cup {[s EXCEPT ![k] = s[k + 1], ![k + 1] = s[k]] : k \in 1..(Len(s) - 1)}

ShortReadings == {SubSeq(t, 1, k) : t \in {ExampleToken, DigitRunToken},
                                     k \in 1..MaxReadLen}
ReadingPairs ==
       UNION {{<<r, n>> : n \in NoisyReadings(r)} : r \in ShortReadings}
    \cup {<<ExampleToken, ExampleNoisy>>}
    \cup {<<ExampleToken, n>> : n \in OneEdit(ExampleToken)}

\* the candidate run_ocr_on_crop returns for one detection reading `text`
ReadingCandidate(text, conf) ==
    [results |-> <<[text |-> text, conf |-> conf]>>, combined |-> text]

\* two copies of s and one of n, n at position pos
MajorityCandidates(r, n, conf, pos) ==
    [k \in 1..3 |-> ReadingCandidate(IF k = pos THEN n ELSE r, conf)]

LevIdle == [a |-> <<>>, b |-> <<>>, d |-> 0, res |-> 0, stage |-> "idle"]
TxtIdle == [op |-> "idle", in |-> <<>>, prev |-> <<>>, cur |-> <<>>, n |-> 0]
CallIdle == [op |-> "idle", stage |-> "idle"]
ConsIdle == [stage |-> "idle", S |-> <<>>, N |-> <<>>, cands |-> <<>>,
             res |-> [text |-> <<>>, conf |-> 0]]

\* reader = None, ocr.py 1237
None == 0

DriverIdle ==
    /\ pc = "idle"
    /\ stream = <<>>
    /\ nread = 0
    /\ out = <<>>
    /\ reader = None
    /\ use_gpu = FALSE
    /\ hist = <<>>
    /\ fast_mode = TRUE
    /\ passes = <<>>
    /\ gamma_lut_cache = [g \in {} |-> <<>>]

driverVars == <<pc, stream, nread, out, reader, use_gpu, hist, fast_mode, passes,
                gamma_lut_cache>>

-----------------------------------------------------------------------------
(* Specification SpecLev: bounded_levenshtein applied to every pair of      *)
(* strings over LevAlphabet up to MaxLevLen and every bound up to MaxDist   *)

InitLev ==
    /\ lev \in {[a |-> a, b |-> b, d |-> d, res |-> 0, stage |-> "in"] :
                   a \in SeqsUpTo(LevAlphabet, MaxLevLen),
                   b \in SeqsUpTo(LevAlphabet, MaxLevLen),
                   d \in 0..MaxDist}
    /\ txt = TxtIdle
    /\ cons = ConsIdle
    /\ DriverIdle
    /\ call = CallIdle

ApplyLevenshtein ==
    /\ lev.stage = "in"
    /\ lev' = [lev EXCEPT !.res = bounded_levenshtein(lev.a, lev.b, lev.d),
                          !.stage = "done"]
    /\ UNCHANGED <<txt, cons, call, driverVars>>

NextLev == ApplyLevenshtein

SpecLev == InitLev /\ [][NextLev]_vars

-----------------------------------------------------------------------------
(* Specification SpecText: normalize_ocr_text and best_text_window applied  *)
(* once and then again to their own result                                  *)

InitText ==
    /\ txt \in {[op |-> "normalize", in |-> s, prev |-> s, cur |-> s, n |-> 0] :
                   s \in SeqsUpTo(NormAlphabet, MaxNormLen)}
          \cup {[op |-> "window", in |-> s, prev |-> s, cur |-> s, n |-> 0] :
                   s \in WindowInputs}
    /\ lev = LevIdle
    /\ cons = ConsIdle
    /\ DriverIdle
    /\ call = CallIdle

ApplyNormalize ==
    /\ txt.op = "normalize"
    /\ txt.n < 2
    /\ txt' = [txt EXCEPT !.prev = txt.cur,
                          !.cur = normalize_ocr_text(txt.cur),
                          !.n = txt.n + 1]
    /\ UNCHANGED <<lev, cons, call, driverVars>>

ApplyWindow ==
    /\ txt.op = "window"
    /\ txt.n < 2
    /\ txt' = [txt EXCEPT !.prev = txt.cur,
                          !.cur = best_text_window(txt.cur),
                          !.n = txt.n + 1]
    /\ UNCHANGED <<lev, cons, call, driverVars>>

NextText == ApplyNormalize \/ ApplyWindow

SpecText == InitText /\ [][NextText]_vars

-----------------------------------------------------------------------------
(* Specification SpecCons: select_consensus_candidate applied to three      *)
(* candidates of equal confidence, two reading S and one reading N          *)

InitCons ==
    /\ cons \in {[stage |-> "in", S |-> p[1], N |-> p[2],
                  cands |-> MajorityCandidates(p[1], p[2], c, pos),
                  res |-> [text |-> <<>>, conf |-> 0]] :
                    p \in ReadingPairs, c \in ConfLevels, pos \in 1..3}
    /\ lev = LevIdle
    /\ txt = TxtIdle
    /\ DriverIdle
    /\ call = CallIdle

ApplyConsensus ==
    /\ cons.stage = "in"
    /\ cons' = [cons EXCEPT !.res = select_consensus_candidate(cons.cands),
                            !.stage = "done"]
    /\ UNCHANGED <<lev, txt, call, driverVars>>

NextCons == ApplyConsensus

SpecCons == InitCons /\ [][NextCons]_vars

-----------------------------------------------------------------------------
(* Claims about bounded_levenshtein (specification SpecLev) *)

LevTrue == Levenshtein(lev.a, lev.b)
LevShortCircuit == Abs(Len(lev.a) - Len(lev.b)) > lev.d

\* C5: bounded_levenshtein(a, b, d) equals the unbounded Levenshtein distance
\* of a and b whenever that distance is <= d, and is a value > d whenever
\* that distance is > d.
C5_BoundedAgreesWithTrue ==
    lev.stage = "done" =>
        /\ (LevTrue <= lev.d => lev.res = LevTrue)
        /\ (LevTrue > lev.d => lev.res > lev.d)

\* C5 witness: the whole table was filled for two different strings whose
\* distance is exactly the bound, and that distance was returned.
C5_Witness ==
    /\ lev.stage = "done"
    /\ lev.d >= 2
    /\ LevTrue = lev.d
    /\ lev.res = lev.d

\* C6 as stated: whenever the true distance exceeds maxDist the result is
\* exactly maxDist+1, so the result always lies in 0..maxDist+1.
C6_SentinelAlways ==
    lev.stage = "done" =>
        /\ (LevTrue > lev.d => lev.res = lev.d + 1)
        /\ lev.res \in 0..(lev.d + 1)

\* C6 amended: the result is exactly maxDist+1 when |len(a)-len(b)| > maxDist;
\* when the true distance exceeds maxDist the result is maxDist+1 or the true
\* distance itself (no row minimum exceeded maxDist), so it lies in
\* 0..max(maxDist+1, len(a), len(b)).
C6_SentinelOrTrue ==
    lev.stage = "done" =>
        /\ (LevShortCircuit => lev.res = lev.d + 1)
        /\ (LevTrue > lev.d => lev.res \in {lev.d + 1, LevTrue})
        /\ lev.res \in 0..Max2(lev.d + 1, Max2(Len(lev.a), Len(lev.b)))

\* C6 witness: the true distance exceeds the bound without the length
\* short-circuit, and the row-minimum exit answered maxDist+1.
C6_Witness ==
    /\ lev.stage = "done"
    /\ ~LevShortCircuit
    /\ LevTrue > lev.d + 1
    /\ lev.res = lev.d + 1

-----------------------------------------------------------------------------
(* Claims about normalize_ocr_text and best_text_window (SpecText) *)

IsContiguousSubstring(sub, text) ==
    \E i \in 0..(Len(text) - Len(sub)) : Slice(text, i, i + Len(sub)) = sub

\* C8: normalize_ocr_text is idempotent: normalizing a normalized string
\* leaves it unchanged.
C8_NormalizeIdempotent ==
    (txt.op = "normalize" /\ txt.n = 2) => txt.cur = txt.prev

\* C8 witness: a string with characters outside the allow-list and with
\* underscore runs was normalized twice, and the first pass changed it.
C8_Witness ==
    /\ txt.op = "normalize"
    /\ txt.n = 2
    /\ HasDoubleUnderscore(sanitize_text(txt.in))
    /\ sanitize_text(txt.in) # txt.in
    /\ txt.cur # <<>>

\* C9: best_text_window is a fixed point after one application.
C9_WindowFixedPoint ==
    (txt.op = "window" /\ txt.n = 2) => txt.cur = txt.prev

\* C9 witness: a reading longer than 18 characters was cut to a proper
\* window, and the window function was applied to that window again.
C9_Witness ==
    /\ txt.op = "window"
    /\ txt.n = 2
    /\ Len(sanitize_text(txt.in)) > 18
    /\ Len(txt.prev) < Len(sanitize_text(txt.in))

\* C10: for an input whose sanitized form has n >= 1 characters,
\* best_text_window returns a contiguous substring of the sanitized text of
\* length between min(12, n) and min(18, n).
C10_WindowLength ==
    (txt.op = "window" /\ txt.n = 1 /\ sanitize_text(txt.in) # <<>>) =>
        LET text == sanitize_text(txt.in)
            n == Len(text)
        IN  /\ IsContiguousSubstring(txt.cur, text)
            /\ Min2(12, n) <= Len(txt.cur)
            /\ Len(txt.cur) <= Min2(18, n)

\* C10 witness: the sanitized input has more than 18 characters, starts with
\* "@" and ends with "_", and the result has at most 18.
C10_Witness ==
    /\ txt.op = "window"
    /\ txt.n = 1
    /\ Len(sanitize_text(txt.in)) > 18
    /\ Head(sanitize_text(txt.in)) = "@"
    /\ sanitize_text(txt.in)[Len(sanitize_text(txt.in))] = "_"
    /\ Len(txt.cur) <= 18

-----------------------------------------------------------------------------
(* Claims about select_consensus_candidate (specification SpecCons) *)

StableReading(t) == best_text_window(t) = t /\ normalize_ocr_text(t) = t

\* base score of the single-detection candidate reading t in the current instance
ReadingBase(t) ==
    score_result(<<[text |-> t, conf |-> cons.cands[1].results[1].conf]>>, t)

MajorityCase ==
    /\ cons.stage = "done"
    /\ StableReading(cons.S)
    /\ StableReading(cons.N)
    /\ bounded_levenshtein(cons.S, cons.N, 2) <= 2

\* S is the reference of the vote: its length carries the larger weight and N
\* has another length, or N has S's length and does not precede S in the
\* order by base score
MajorityIsReference ==
    \/ /\ Len(cons.N) # Len(cons.S)
       /\ 2 * Len(cons.S) > Len(cons.N)
    \/ /\ Len(cons.N) = Len(cons.S)
       /\ \/ ReadingBase(cons.S) > ReadingBase(cons.N)
          \/ /\ ReadingBase(cons.S) = ReadingBase(cons.N)
             /\ cons.cands[1].combined = cons.S

\* C7 as stated: with two readings S and one reading N within edit distance 2,
\* all of one confidence and all unchanged by best_text_window and
\* normalize_ocr_text, select_consensus_candidate returns S whichever reading
\* has the higher base score.
C7_MajorityAlways == MajorityCase => cons.res.text = cons.S

\* C7 amended: under the same conditions select_consensus_candidate returns S
\* provided S is the reference of the position vote, that is N differs from S
\* in length and is shorter than twice S, or N has the length of S and either
\* a lower base score or the same base score with a copy of S listed first.
C7_MajorityWhenReference ==
    (MajorityCase /\ MajorityIsReference) => cons.res.text = cons.S

\* the example of the tests: the 16-character token twice and its 15-character
\* noisy reading listed first, answered with the token
C7_Witness ==
    /\ MajorityCase
    /\ MajorityIsReference
    /\ cons.S = ExampleToken
    /\ cons.N = ExampleNoisy
    /\ cons.cands[1].combined = cons.N
    /\ cons.res.text = cons.S

-----------------------------------------------------------------------------
(* is_good_candidate, ocr.py 208-216, with has_strong_result, 512-516 *)

has_strong_result(results) ==
    \E k \in 1..Len(results) :
        results[k].conf >= 50 /\ Len(strip(results[k].text)) >= 2

\* faulty variant: the strong single detection does not count
is_good_candidate_nostrong(results, combined) ==
    /\ combined # <<>>
    /\ candidate_confidence(results) >= 6500
    /\ Len(combined) >= 14

is_good_candidate(results, combined) ==
    IF combined = <<>> THEN FALSE
    ELSE IF candidate_confidence(results) >= 6500 /\ Len(combined) >= 14 THEN TRUE
    ELSE IF has_strong_result(results) /\ Len(combined) >= 14 THEN TRUE
    ELSE FALSE

\* Detections and combined texts of the checked calls
MaxDetections == 2
DetectionTexts ==
    {<<" ">>, <<"A">>, <<" ", "A", "B", " ">>, ExampleToken}
DetectionConfs == {40, 50, 64, 65, 70}
Detections == [text : DetectionTexts, conf : DetectionConfs]
CombinedLengths == {0, 10, 13, 14, 16}

InitGood ==
    /\ call \in {[op |-> "is_good_candidate", stage |-> "in", results |-> r,
                  combined |-> SubSeq(ExampleToken, 1, n), res |-> FALSE] :
                    r \in SeqsUpTo(Detections, MaxDetections), n \in CombinedLengths}
    /\ lev = LevIdle
    /\ txt = TxtIdle
    /\ cons = ConsIdle
    /\ DriverIdle

ApplyGood ==
    /\ call.op = "is_good_candidate"
    /\ call.stage = "in"
    /\ call' = [call EXCEPT !.res = is_good_candidate(call.results, call.combined),
                            !.stage = "done"]
    /\ UNCHANGED <<lev, txt, cons, driverVars>>

NextGood == ApplyGood

SpecGood == InitGood /\ [][NextGood]_vars

\* the detections that are not blank, and their length-weighted mean
\* confidence compared with a bound given in 1/100
NonBlankDetections(results) ==
    LET kept(d) == strip(d.text) # <<>> IN SelectSeq(results, kept)

WeightedMeanAtLeast(results, bound) ==
    LET nb == NonBlankDetections(results)
        w == [k \in 1..Len(nb) |-> Len(strip(nb[k].text))]
    IN  /\ nb # <<>>
        /\ SumSeq([k \in 1..Len(nb) |-> nb[k].conf * w[k]]) >= bound * SumSeq(w)

\* C11: is_good_candidate is true if and only if the combined text has at
\* least 14 characters and either the length-weighted mean confidence of the
\* non-blank detections is at least 0.65 or some detection has confidence at
\* least 0.50 and a trimmed text of at least 2 characters.
C11_GoodIff ==
    (call.op = "is_good_candidate" /\ call.stage = "done") =>
        (call.res <=>
            /\ Len(call.combined) >= 14
            /\ \/ WeightedMeanAtLeast(call.results, 65)
               \/ \E k \in 1..Len(call.results) :
                      /\ call.results[k].conf >= 50
                      /\ Len(strip(call.results[k].text)) >= 2)

\* confidence 0.40 on a one-letter detection beside a 16-character detection
\* of confidence 0.64: the mean is below 0.65, the second detection is strong,
\* and the 16-character candidate is good
C11_Witness ==
    /\ call.op = "is_good_candidate"
    /\ call.stage = "done"
    /\ call.results = <<[text |-> <<"A">>, conf |-> 40],
                        [text |-> ExampleToken, conf |-> 64]>>
    /\ Len(call.combined) = 16
    /\ ~WeightedMeanAtLeast(call.results, 65)
    /\ call.res

-----------------------------------------------------------------------------
(* roi_iou and dedupe_rois, ocr.py 892-918.  A ROI is <<x0, y0, x1, y1>>;   *)
(* a threshold is given in 1/100.                                           *)

\* roi_iou as the fraction num / den
roi_iou(a, b) ==
    LET ix0 == Max2(a[1], b[1])
        iy0 == Max2(a[2], b[2])
        ix1 == Min2(a[3], b[3])
        iy1 == Min2(a[4], b[4])
        inter == Max2(0, ix1 - ix0) * Max2(0, iy1 - iy0)
        aa == Max2(1, (a[3] - a[1]) * (a[4] - a[2]))
        ab == Max2(1, (b[3] - b[1]) * (b[4] - b[2]))
    IN  IF inter <= 0 THEN [num |-> 0, den |-> 1]
        ELSE [num |-> inter, den |-> Max2(1, aa + ab - inter)]

\* roi_iou(a, b) >= iou_threshold, line 913
IouAtLeast(a, b, iou_threshold) ==
    roi_iou(a, b).num * 100 >= iou_threshold * roi_iou(a, b).den

\* faulty variant: a ROI is dropped only when the overlap exceeds the threshold
RECURSIVE DedupeScanStrict(_, _, _, _, _)
DedupeScanStrict(rois, iou_threshold, max_rois, i, kept) ==
    IF i > Len(rois) THEN kept
    ELSE LET roi == rois[i]
         IN  IF roi[3] - roi[1] < 8 \/ roi[4] - roi[2] < 8
             THEN DedupeScanStrict(rois, iou_threshold, max_rois, i + 1, kept)
             ELSE IF \E k \in 1..Len(kept) :
                        roi_iou(roi, kept[k]).num * 100
                            > iou_threshold * roi_iou(roi, kept[k]).den
             THEN DedupeScanStrict(rois, iou_threshold, max_rois, i + 1, kept)
             ELSE IF Len(kept) + 1 >= max_rois THEN Append(kept, roi)
             ELSE DedupeScanStrict(rois, iou_threshold, max_rois, i + 1, Append(kept, roi))

dedupe_rois_strict(rois, iou_threshold, max_rois) ==
    DedupeScanStrict(rois, iou_threshold, max_rois, 1, <<>>)

\* the loop of lines 909-917 from the i-th ROI on
RECURSIVE DedupeScan(_, _, _, _, _)
DedupeScan(rois, iou_threshold, max_rois, i, kept) ==
    IF i > Len(rois) THEN kept
    ELSE LET roi == rois[i]
         IN  IF roi[3] - roi[1] < 8 \/ roi[4] - roi[2] < 8
             THEN DedupeScan(rois, iou_threshold, max_rois, i + 1, kept)
             ELSE IF \E k \in 1..Len(kept) : IouAtLeast(roi, kept[k], iou_threshold)
             THEN DedupeScan(rois, iou_threshold, max_rois, i + 1, kept)
             ELSE IF Len(kept) + 1 >= max_rois THEN Append(kept, roi)
             ELSE DedupeScan(rois, iou_threshold, max_rois, i + 1, Append(kept, roi))

dedupe_rois(rois, iou_threshold, max_rois) ==
    DedupeScan(rois, iou_threshold, max_rois, 1, <<>>)

\* ROI lists of the checked calls: a 20 x 10 box, a box at IoU 0.9 with it,
\* a box at IoU 0.1 with it, a box 7 wide, an 8 x 8 box
MaxRois == 3
DedupeBoxes ==
    {<<0, 0, 20, 10>>, <<0, 0, 18, 10>>, <<16, 0, 40, 10>>, <<0, 0, 7, 30>>,
     <<5, 5, 13, 13>>}
DedupeThresholds == {0, 62, 65, 90, 100}
DedupeCaps == {0, 1, 2, 6}

InitDedupe ==
    /\ call \in {[op |-> "dedupe_rois", stage |-> "in", rois |-> r,
                  iou_threshold |-> t, max_rois |-> c, res |-> <<>>] :
                    r \in SeqsUpTo(DedupeBoxes, MaxRois), t \in DedupeThresholds,
                    c \in DedupeCaps}
    /\ lev = LevIdle
    /\ txt = TxtIdle
    /\ cons = ConsIdle
    /\ DriverIdle

ApplyDedupe ==
    /\ call.op = "dedupe_rois"
    /\ call.stage = "in"
    /\ call' = [call EXCEPT !.res = dedupe_rois(call.rois, call.iou_threshold,
                                                call.max_rois),
                            !.stage = "done"]
    /\ UNCHANGED <<lev, txt, cons, driverVars>>

NextDedupe == ApplyDedupe

SpecDedupe == InitDedupe /\ [][NextDedupe]_vars

\* s is t with some elements left out
RECURSIVE IsSubsequence(_, _)
IsSubsequence(s, t) ==
    IF s = <<>> THEN TRUE
    ELSE IF t = <<>> THEN FALSE
    ELSE IF Head(s) = Head(t) THEN IsSubsequence(Tail(s), Tail(t))
    ELSE IsSubsequence(s, Tail(t))

DedupeDone == call.op = "dedupe_rois" /\ call.stage = "done"

KeptApart ==
    \A i \in 1..Len(call.res) : \A j \in 1..Len(call.res) :
        i < j => ~IouAtLeast(call.res[i], call.res[j], call.iou_threshold)

IsKept(roi) == \E k \in 1..Len(call.res) : call.res[k] = roi

OverlapsKept(roi) ==
    \E k \in 1..Len(call.res) :
        call.res[k] # roi /\ IouAtLeast(roi, call.res[k], call.iou_threshold)

TooSmall(roi) == roi[3] - roi[1] < 8 \/ roi[4] - roi[2] < 8

\* C12 as stated: for any ROI list, threshold and cap, the result is an
\* order-preserving subsequence of the input with at most max_rois elements,
\* no two of them at IoU >= threshold, and a ROI is left out only if it
\* overlaps a kept ROI at IoU >= threshold (or the cap is reached).
C12_DedupeAsStated ==
    DedupeDone =>
        /\ IsSubsequence(call.res, call.rois)
        /\ Len(call.res) <= call.max_rois
        /\ KeptApart
        /\ \A i \in 1..Len(call.rois) :
              \/ IsKept(call.rois[i])
              \/ OverlapsKept(call.rois[i])
              \/ Len(call.res) >= call.max_rois

\* C12 amended: for a cap of at least 1 the result is an order-preserving
\* subsequence of the input with at most max_rois elements, each at least 8
\* wide and 8 high, no two of them at IoU >= threshold; a ROI is left out
\* only if it is less than 8 wide or 8 high, or overlaps a kept ROI at
\* IoU >= threshold, or the cap is reached.  With a cap below 1 the first
\* admissible ROI alone is returned.
C12_DedupeSizeAndCap ==
    DedupeDone =>
        /\ IsSubsequence(call.res, call.rois)
        /\ Len(call.res) <= Max2(1, call.max_rois)
        /\ KeptApart
        /\ \A k \in 1..Len(call.res) : ~TooSmall(call.res[k])
        /\ \A i \in 1..Len(call.rois) :
              \/ IsKept(call.rois[i])
              \/ TooSmall(call.rois[i])
              \/ OverlapsKept(call.rois[i])
              \/ Len(call.res) >= Max2(1, call.max_rois)

\* the 20 x 10 box, the box at IoU 0.9 with it and the box at IoU 0.1 with it,
\* threshold 0.62 and cap 6: the first and the third are kept
C12_Witness ==
    /\ DedupeDone
    /\ call.rois = <<<<0, 0, 20, 10>>, <<0, 0, 18, 10>>, <<16, 0, 40, 10>>>>
    /\ call.iou_threshold = 62
    /\ call.max_rois = 6
    /\ call.res = <<<<0, 0, 20, 10>>, <<16, 0, 40, 10>>>>

-----------------------------------------------------------------------------
(* roi_priority_score and prioritize_rois, ocr.py 921-963.  A shape is      *)
(* <<h, w>>; the score is held in 1/10000.                                  *)

roi_priority_score(roi, img_shape) ==
    LET h == img_shape[1]
        w == img_shape[2]
        rw == Max2(1, roi[3] - roi[1])
        rh == Max2(1, roi[4] - roi[2])
        \* area_ratio in 1/100000, width_ratio and height_ratio in 1/10000
        area_ratio == (rw * rh * 100000) \div Max2(1, w * h)
        width_ratio == (rw * 10000) \div Max2(1, w)
        height_ratio == (rh * 10000) \div Max2(1, h)
        aspect == (rw * 10000) \div rh
        dx == (Abs(roi[1] + roi[3] - w) * 10000) \div Max2(2, w)
        dy == (Abs(50 * (roi[2] + roi[4]) - 62 * h) * 10000) \div Max2(100, 62 * h)
        center_bonus == Max2(0, 10000 - (95 * dx) \div 100 - (70 * dy) \div 100)
    IN  width_ratio * 11
        + Min2(45000, (area_ratio * 95) \div 10)
        + Min2(20000, (Max2(0, aspect - 12000) * 18) \div 100)
        + center_bonus * 2
        - (IF width_ratio < 2000 THEN (2000 - width_ratio) * 22 ELSE 0)
        - (IF area_ratio < 1200 THEN (1200 - area_ratio) * 12 ELSE 0)
        - (IF height_ratio < 250 THEN 9000 ELSE 0)

\* sorted(rois, key=roi_priority_score, reverse=True), line 958: descending,
\* equal scores in the order of the input
RECURSIVE InsertByPriority(_, _, _)
InsertByPriority(sorted, r, img_shape) ==
    IF sorted = <<>> THEN <<r>>
    ELSE IF roi_priority_score(Head(sorted), img_shape) >= roi_priority_score(r, img_shape)
         THEN <<Head(sorted)>> \o InsertByPriority(Tail(sorted), r, img_shape)
         ELSE <<r>> \o sorted

RECURSIVE SortByPriority(_, _)
SortByPriority(rois, img_shape) ==
    IF rois = <<>> THEN <<>>
    ELSE InsertByPriority(SortByPriority(SubSeq(rois, 1, Len(rois) - 1), img_shape),
                          rois[Len(rois)], img_shape)

\* max(ordered, key=width), line 960: the first ROI of maximal width
Widest(ordered) ==
    ordered[CHOOSE k \in 1..Len(ordered) : \A m \in 1..Len(ordered) :
                /\ ordered[m][3] - ordered[m][1] <= ordered[k][3] - ordered[k][1]
                /\ (m < k => ordered[m][3] - ordered[m][1] < ordered[k][3] - ordered[k][1])]

\* faulty variant: the widest ROI is not promoted
prioritize_rois_sorted(rois, img_shape) ==
    IF rois = <<>> THEN <<>> ELSE SortByPriority(rois, img_shape)

prioritize_rois(rois, img_shape) ==
    IF rois = <<>> THEN <<>>
    ELSE Once(SortByPriority(rois, img_shape), LAMBDA ordered :
         Once(Widest(ordered), LAMBDA widest :
             IF ordered[1] # widest
             THEN <<ordered[1], widest>>
                      \o SelectSeq(Tail(ordered), LAMBDA r : r # widest)
             ELSE ordered))

\* ROIs of a 100 x 60 view: a band in the middle, a smaller one in it, a wider
\* strip along the top, the widest strip along the bottom, a bright spot and
\* a band on the left
PriorityShape == <<60, 100>>
PriorityBoxes ==
    {<<22, 30, 77, 45>>, <<30, 32, 70, 44>>, <<20, 0, 80, 1>>, <<0, 58, 62, 60>>,
     <<45, 20, 55, 30>>, <<0, 25, 40, 40>>}

DistinctSeqs(S, n) ==
    {s \in SeqsUpTo(S, n) : \A i \in 1..Len(s) : \A j \in 1..Len(s) : i # j => s[i] # s[j]}

InitPrioritize ==
    /\ call \in {[op |-> "prioritize_rois", stage |-> "in", rois |-> r,
                  img_shape |-> PriorityShape, res |-> <<>>] :
                    r \in DistinctSeqs(PriorityBoxes, MaxRois)}
    /\ lev = LevIdle
    /\ txt = TxtIdle
    /\ cons = ConsIdle
    /\ DriverIdle

ApplyPrioritize ==
    /\ call.op = "prioritize_rois"
    /\ call.stage = "in"
    /\ call' = [call EXCEPT !.res = prioritize_rois(call.rois, call.img_shape),
                            !.stage = "done"]
    /\ UNCHANGED <<lev, txt, cons, driverVars>>

NextPrioritize == ApplyPrioritize

SpecPrioritize == InitPrioritize /\ [][NextPrioritize]_vars

PrioritizeDone == call.op = "prioritize_rois" /\ call.stage = "done"

Occurrences(s, x) == Cardinality({k \in 1..Len(s) : s[k] = x})

MaxWidth(rois) ==
    CHOOSE m \in {rois[k][3] - rois[k][1] : k \in 1..Len(rois)} :
        \A k \in 1..Len(rois) : rois[k][3] - rois[k][1] <= m

\* C17: for a non-empty list of pairwise distinct ROIs, prioritize_rois
\* returns a permutation of the input, and a ROI of maximum width is at
\* index 0 or index 1 of it.
C17_WidestInFirstTwo ==
    (PrioritizeDone /\ call.rois # <<>>) =>
        /\ Len(call.res) = Len(call.rois)
        /\ \A k \in 1..Len(call.rois) : Occurrences(call.res, call.rois[k]) = 1
        /\ \E k \in 1..Min2(2, Len(call.res)) :
              call.res[k][3] - call.res[k][1] = MaxWidth(call.rois)

\* the widest ROI scores lowest of three and is moved to the second place
C17_Witness ==
    /\ PrioritizeDone
    /\ call.rois = <<<<0, 58, 62, 60>>, <<30, 32, 70, 44>>, <<22, 30, 77, 45>>>>
    /\ call.res = <<<<22, 30, 77, 45>>, <<0, 58, 62, 60>>, <<30, 32, 70, 44>>>>

-----------------------------------------------------------------------------
(* Calls of align_to_reference (specification SpecAlign) *)

InitAlign ==
    /\ call \in {[op |-> "align_to_reference", stage |-> "in", reference |-> r,
                  text |-> t, res |-> <<>>] :
                    r \in SeqsUpTo(LevAlphabet, MaxLevLen),
                    t \in SeqsUpTo(LevAlphabet, MaxLevLen)}
    /\ lev = LevIdle
    /\ txt = TxtIdle
    /\ cons = ConsIdle
    /\ DriverIdle

ApplyAlign ==
    /\ call.op = "align_to_reference"
    /\ call.stage = "in"
    /\ call' = [call EXCEPT !.res = align_to_reference(call.reference, call.text),
                            !.stage = "done"]
    /\ UNCHANGED <<lev, txt, cons, driverVars>>

NextAlign == ApplyAlign

SpecAlign == InitAlign /\ [][NextAlign]_vars

AlignDone == call.op = "align_to_reference" /\ call.stage = "done"

GapSlots(aligned) == {k \in 1..Len(aligned) : aligned[k] = NoChar}

DifferingSlots(reference, aligned) ==
    {k \in 1..Len(aligned) : aligned[k] # NoChar /\ aligned[k] # reference[k]}

\* C15: align_to_reference(reference, text) has len(reference) slots; its
\* slots that are not gaps, left to right, are a subsequence of text; and
\* gap slots + slots differing from the reference character + characters of
\* text in no slot is the Levenshtein distance of reference and text.
C15_AlignmentOptimal ==
    AlignDone =>
        LET aligned == call.res
            kept == SelectSeq(aligned, LAMBDA c : c # NoChar)
        IN  /\ Len(aligned) = Len(call.reference)
            /\ IsSubsequence(kept, call.text)
            /\ Cardinality(GapSlots(aligned))
                 + Cardinality(DifferingSlots(call.reference, aligned))
                 + (Len(call.text) - Len(kept))
               = Levenshtein(call.reference, call.text)

\* "abab" against "bba": one gap, one differing slot, nothing left over
C15_Witness ==
    /\ AlignDone
    /\ call.reference = <<"a", "b", "a", "b">>
    /\ call.text = <<"b", "b", "a">>
    /\ Cardinality(GapSlots(call.res)) = 1
    /\ Cardinality(DifferingSlots(call.reference, call.res)) = 1
    /\ Levenshtein(call.reference, call.text) = 2

-----------------------------------------------------------------------------
(* The admission tests of the two clustering loops: run_ocr_on_crop, ocr.py *)
(* 1121-1153, and select_consensus_candidate, ocr.py 805-831.               *)

\* faulty variant: the threshold follows the length of the entry alone
CropAdmits_textonly(seed, text) ==
    LET max_dist == IF Len(text) <= 18 THEN 2 ELSE 3
    IN  /\ Abs(Len(seed) - Len(text)) <= max_dist
        /\ bounded_levenshtein(seed, text, max_dist) <= max_dist

\* lines 1149-1153: does the entry join the cluster with this seed
CropAdmits(seed, text) ==
    LET max_dist == IF Max2(Len(seed), Len(text)) <= 18 THEN 2 ELSE 3
    IN  /\ Abs(Len(seed) - Len(text)) <= max_dist
        /\ bounded_levenshtein(seed, text, max_dist) <= max_dist

\* lines 1121-1124: the text of an entry of run_ocr_on_crop
CropEntryText(t) == normalize_ocr_text(t)

\* lines 805-806: the text of an entry of select_consensus_candidate
ConsensusEntryText(combined) == normalize_ocr_text(best_text_window(combined))

\* Raw readings: the token of the tests with up to MaxTail characters read
\* after it, as read, with the first or the first two characters misread,
\* and with a doubled underscore and a blank.
MaxTail == 4
TailChars == <<"x", "y", "z", "w", "v", "u">>
Misread(r, n) == [k \in 1..Len(r) |-> IF k <= n THEN "Q" ELSE r[k]]
Smeared(r) == SubSeq(r, 1, 14) \o <<"_">> \o SubSeq(r, 15, 16) \o <<" ">> \o SubSeq(r, 17, Len(r))
AdmitReadings ==
    UNION {{r, Misread(r, 1), Misread(r, 2), Smeared(r)} :
              r \in {ExampleToken \o SubSeq(TailChars, 1, k) : k \in 0..MaxTail}}

InitAdmit ==
    /\ call \in {[op |-> "admit", stage |-> "in", a |-> a, b |-> b,
                  crop_ab |-> FALSE, crop_ba |-> FALSE,
                  cons_ab |-> FALSE, cons_ba |-> FALSE] :
                    a \in AdmitReadings, b \in AdmitReadings}
    /\ lev = LevIdle
    /\ txt = TxtIdle
    /\ cons = ConsIdle
    /\ DriverIdle

\* both loops meet the readings a and b, in either order
ApplyAdmit ==
    /\ call.op = "admit"
    /\ call.stage = "in"
    /\ call' = Once(CropEntryText(call.a), LAMBDA na :
               Once(CropEntryText(call.b), LAMBDA nb :
               Once(ConsensusEntryText(call.a), LAMBDA wa :
               Once(ConsensusEntryText(call.b), LAMBDA wb :
                   [call EXCEPT !.crop_ab = CropAdmits(nb, na),
                                !.crop_ba = CropAdmits(na, nb),
                                !.cons_ab = ConsensusAdmits(wb, wa),
                                !.cons_ba = ConsensusAdmits(wa, wb),
                                !.stage = "done"]))))
    /\ UNCHANGED <<lev, txt, cons, driverVars>>

NextAdmit == ApplyAdmit

SpecAdmit == InitAdmit /\ [][NextAdmit]_vars

AdmitDone == call.op = "admit" /\ call.stage = "done"

\* the edit distance of two readings: the last cell of the full table
TableDistance(a, b) ==
    AlignTable(a, b, <<[j \in 1..(Len(b) + 1) |-> j - 1]>>)[Len(a) + 1][Len(b) + 1]

\* 2 when the longer of the two has at most 18 characters, else 3
AdmitThreshold(a, b) == IF Max2(Len(a), Len(b)) <= 18 THEN 2 ELSE 3

\* C18: in both clustering loops a reading a is admitted to a cluster seeded
\* by b if and only if b is admitted to a cluster seeded by a, namely when
\* their edit distance is at most 2 if the longer of the two has at most 18
\* characters, and at most 3 otherwise.
C18_AdmissionSymmetric ==
    AdmitDone =>
        /\ call.crop_ab = call.crop_ba
        /\ call.crop_ab <=>
              TableDistance(CropEntryText(call.a), CropEntryText(call.b))
                 <= AdmitThreshold(CropEntryText(call.a), CropEntryText(call.b))
        /\ call.cons_ab = call.cons_ba
        /\ call.cons_ab <=>
              TableDistance(ConsensusEntryText(call.a), ConsensusEntryText(call.b))
                 <= AdmitThreshold(ConsensusEntryText(call.a), ConsensusEntryText(call.b))

\* a reading of 19 characters and one of 17 at edit distance 3: admitted to
\* each other's cluster in run_ocr_on_crop
C18_Witness ==
    /\ AdmitDone
    /\ Len(CropEntryText(call.a)) = 19
    /\ Len(CropEntryText(call.b)) = 17
    /\ TableDistance(CropEntryText(call.a), CropEntryText(call.b)) = 3
    /\ call.crop_ab
    /\ call.crop_ba

-----------------------------------------------------------------------------
(* find_text_roi with tighten_text_band, ocr.py 266-391; expand_roi, 878-889; *)
(* propose_bright_text_rois, 966-1029.  A mask is [h, w, blobs]: the filled  *)
(* rectangles <<x, y, cw, ch>> of its nonzero pixels, which are also the     *)
(* bounding rectangles of the contours, in the order findContours gives.     *)

\* int() of the fraction n / d, d > 0: rounds toward zero
Trunc(n, d) == IF n >= 0 THEN n \div d ELSE -((-n) \div d)

\* np.count_nonzero(sub, axis=1) of line 273 for the row y of the mask,
\* columns x0 .. x1 - 1
RowHits(mask, x0, x1, y) ==
    SumSeq([k \in 1..Len(mask.blobs) |->
               LET b == mask.blobs[k]
               IN  IF b[2] <= y /\ y < b[2] + b[4]
                   THEN Max2(0, Min2(x1, b[1] + b[3]) - Max2(x0, b[1]))
                   ELSE 0])

tighten_text_band(mask, roi) ==
    LET x0 == roi[1]
        y0 == roi[2]
        x1 == roi[3]
        y1 == roi[4]
    IN  IF x1 - x0 < 8 \/ y1 - y0 < 8 THEN roi
        ELSE Once(<<>> \o [r \in 1..(y1 - y0) |-> RowHits(mask, x0, x1, y0 + r - 1)],
                  LAMBDA row_hits :
             LET peak == MaxOfSeq(row_hits)
                 thresh == Max2(2, (peak * 20) \div 100)
                 keep == {r \in 1..Len(row_hits) : row_hits[r] >= thresh}
             IN  IF peak <= 0 \/ keep = {} THEN roi
                 ELSE LET band_top == (CHOOSE r \in keep : \A q \in keep : r <= q) - 1
                          band_bottom == (CHOOSE r \in keep : \A q \in keep : q <= r) - 1
                          band_h == Max2(1, band_bottom - band_top + 1)
                          pad == Max2(3, (band_h * 35) \div 100)
                          ny0 == Max2(0, y0 + band_top - pad)
                          ny1 == Min2(mask.h, y0 + band_bottom + 1 + pad)
                          min_h == Max2(8, ((y1 - y0) * 45) \div 100)
                          cur_h == ny1 - ny0
                          extra == (min_h - cur_h) \div 2
                          my0 == Max2(0, ny0 - extra)
                      IN  IF cur_h < min_h
                          THEN <<x0, my0, x1, Min2(mask.h, ny1 + (min_h - (ny1 - my0)))>>
                          ELSE <<x0, ny0, x1, ny1>>)

\* lines 319-332: the contour is a candidate line blob
TextBlobPasses(mask, b) ==
    LET area == b[3] * b[4]
    IN  /\ ~(area * 100 > mask.h * mask.w * 45)
        /\ ~(area * 10000 < mask.h * mask.w * 4)
        /\ ~(b[3] * 100 < mask.w * 3)
        /\ ~(b[4] * 4 > mask.h)
        /\ ~(b[3] * 10 < b[4] * 8)

\* lines 334-341: area * (1 + center_bonus), in 1/10000
TextBlobScore(mask, b) ==
    LET dx == (Abs(2 * b[1] + b[3] - mask.w) * 10000) \div Max2(2, mask.w)
        dy == (Abs(20 * b[2] + 10 * b[4] - 13 * mask.h) * 10000) \div Max2(20, 13 * mask.h)
        center_bonus == Max2(0, 10000 - dx - (85 * dy) \div 100)
    IN  b[3] * b[4] * (10000 + center_bonus)

\* candidates.sort(reverse=True), line 346: descending, ties in input order
RECURSIVE InsertByBlobScore(_, _, _)
InsertByBlobScore(sorted, b, mask) ==
    IF sorted = <<>> THEN <<b>>
    ELSE IF TextBlobScore(mask, Head(sorted)) >= TextBlobScore(mask, b)
         THEN <<Head(sorted)>> \o InsertByBlobScore(Tail(sorted), b, mask)
         ELSE <<b>> \o sorted

RECURSIVE SortByBlobScore(_, _)
SortByBlobScore(blobs, mask) ==
    IF blobs = <<>> THEN <<>>
    ELSE InsertByBlobScore(SortByBlobScore(SubSeq(blobs, 1, Len(blobs) - 1), mask),
                           blobs[Len(blobs)], mask)

\* faulty variant: the left edge of the merged box is the larger of the two
RECURSIVE MergePass_maxleft(_, _, _, _)
MergePass_maxleft(candidates, k, m, merged) ==
    IF k > Len(candidates) THEN [m |-> m, merged |-> merged]
    ELSE LET b == candidates[k]
             inside == b[1] >= m[1] /\ b[1] + b[3] <= m[3]
                          /\ b[2] >= m[2] /\ b[2] + b[4] <= m[4]
             row_h == Max2(m[4] - m[2], b[4])
             near == 5 * Abs(2 * b[2] + b[4] - (m[2] + m[4])) <= 12 * row_h
             y_overlap == Min2(m[4], b[2] + b[4]) - Max2(m[2], b[2])
             new == <<Max2(m[1], b[1]), Min2(m[2], b[2]),
                      Max2(m[3], b[1] + b[3]), Max2(m[4], b[2] + b[4])>>
         IN  IF ~inside /\ (near \/ y_overlap > 0) /\ new # m
             THEN MergePass_maxleft(candidates, k + 1, new, TRUE)
             ELSE MergePass_maxleft(candidates, k + 1, m, merged)

\* one pass of the for loop of lines 353-369 from candidate k on; m is
\* <<mx0, my0, mx1, my1>>
RECURSIVE MergePass(_, _, _, _)
MergePass(candidates, k, m, merged) ==
    IF k > Len(candidates) THEN [m |-> m, merged |-> merged]
    ELSE LET b == candidates[k]
             inside == b[1] >= m[1] /\ b[1] + b[3] <= m[3]
                          /\ b[2] >= m[2] /\ b[2] + b[4] <= m[4]
             row_h == Max2(m[4] - m[2], b[4])
             \* cy_dist <= row_h * 1.2, both sides times 10
             near == 5 * Abs(2 * b[2] + b[4] - (m[2] + m[4])) <= 12 * row_h
             y_overlap == Min2(m[4], b[2] + b[4]) - Max2(m[2], b[2])
             new == <<Min2(m[1], b[1]), Min2(m[2], b[2]),
                      Max2(m[3], b[1] + b[3]), Max2(m[4], b[2] + b[4])>>
         IN  IF ~inside /\ (near \/ y_overlap > 0) /\ new # m
             THEN MergePass(candidates, k + 1, new, TRUE)
             ELSE MergePass(candidates, k + 1, m, merged)

\* the while loop of lines 351-369
RECURSIVE MergeRows(_, _)
MergeRows(candidates, m) ==
    Once(MergePass(candidates, 2, m, FALSE), LAMBDA p :
        IF p.merged THEN MergeRows(candidates, p.m) ELSE p.m)

\* the same loop, keeping the box and the flag at the end of every pass of
\* the while loop
RECURSIVE MergeRounds(_, _)
MergeRounds(candidates, m) ==
    Once(MergePass(candidates, 2, m, FALSE), LAMBDA p :
        IF p.merged THEN <<p>> \o MergeRounds(candidates, p.m) ELSE <<p>>)

NoTextRoi == [found |-> FALSE, roi |-> <<0, 0, 0, 0>>, clipped |-> FALSE]

\* faulty variant: the right edge is not clamped to the view
MinWidthStep_unclamped(w, x0, x1) ==
    LET min_w == (w * 60) \div 100
        cur_w == x1 - x0
        extra == (min_w - cur_w) \div 2
        nx0 == Max2(0, x0 - extra)
    IN  IF cur_w < min_w THEN <<nx0, x1 + (min_w - (x1 - nx0))>>
        ELSE <<x0, x1>>

\* lines 383-388: <<x0, x1>> after the minimum width step
MinWidthStep(w, x0, x1) ==
    LET min_w == (w * 60) \div 100
        cur_w == x1 - x0
        extra == (min_w - cur_w) \div 2
        nx0 == Max2(0, x0 - extra)
    IN  IF cur_w < min_w THEN <<nx0, Min2(w, x1 + (min_w - (x1 - nx0)))>>
        ELSE <<x0, x1>>

\* lines 371-388: padding, clipped flag, clamping and minimum width around
\* the merged blob m
PadAndWiden(mask, m) ==
    LET w == mask.w
        h == mask.h
        cw == m[3] - m[1]
        ch == m[4] - m[2]
        pad_x == Max2((cw * 45) \div 100, (w * 8) \div 100)
        pad_y == Max2((ch * 55) \div 100, (h * 35) \div 1000)
        clipped == (m[1] - pad_x < 0) \/ (m[1] + cw + pad_x > w)
        x0 == Max2(0, m[1] - pad_x)
        y0 == Max2(0, m[2] - pad_y)
        x1 == Min2(w, m[1] + cw + pad_x)
        y1 == Min2(h, m[2] + ch + pad_y)
        xs == MinWidthStep(w, x0, x1)
    IN  [found |-> TRUE, roi |-> <<xs[1], y0, xs[2], y1>>, clipped |-> clipped]

find_text_roi(mask) ==
    IF mask.h = 0 \/ mask.w = 0 \/ mask.blobs = <<>> THEN NoTextRoi
    ELSE Once(SortByBlobScore(SelectSeq(mask.blobs, LAMBDA b : TextBlobPasses(mask, b)), mask),
              LAMBDA candidates :
         IF candidates = <<>> THEN NoTextRoi
         ELSE LET a == candidates[1]
              IN  Once(MergeRows(candidates, <<a[1], a[2], a[1] + a[3], a[2] + a[4]>>),
                       LAMBDA m :
                  Once(PadAndWiden(mask, m), LAMBDA r :
                      [r EXCEPT !.roi = tighten_text_band(mask, r.roi)])))

\* expand_roi(roi, shape) with the default scales 1.7 and 1.9; shape is <<h, w>>
expand_roi(roi, shape) ==
    LET x0 == roi[1]
        y0 == roi[2]
        x1 == roi[3]
        y1 == roi[4]
    IN  <<Max2(0, Trunc(10 * (x0 + x1) - 17 * (x1 - x0), 20)),
          Max2(0, Trunc(10 * (y0 + y1) - 19 * (y1 - y0), 20)),
          Min2(shape[2], Trunc(10 * (x0 + x1) + 17 * (x1 - x0), 20)),
          Min2(shape[1], Trunc(10 * (y0 + y1) + 19 * (y1 - y0), 20))>>

\* lines 998-1008: the contour of a bright pass is a candidate
BrightBlobPasses(h, w, b) ==
    LET area == b[3] * b[4]
    IN  /\ ~(area * 10000 < h * w * 8 \/ area * 100 > h * w * 55)
        /\ ~(b[3] * 10 < w)
        /\ ~(b[4] * 1000 < h * 25 \/ b[4] * 2 > h)
        /\ ~(b[3] * 10 < 11 * Max2(1, b[4]))

\* lines 1010-1018: the score, in 1/100
BrightBlobScore(h, w, b) ==
    LET area == b[3] * b[4]
        dx == (Abs(2 * b[1] + b[3] - w) * 100) \div Max2(2, w)
        dy == (Abs(100 * b[2] + 50 * b[4] - 58 * h) * 100) \div Max2(100, 65 * h)
        center_bonus == Max2(0, 100 - dx - (80 * dy) \div 100)
    IN  area * (100 + center_bonus)
        + (b[3] * 220000) \div Max2(1, w)
        + (area * 180000) \div Max2(1, h * w)

\* lines 1019-1025: the padded, clamped ROI of a bright blob
BrightRoi(h, w, b) ==
    LET pad_x == Max2((b[3] * 18) \div 100, w \div 100)
        pad_y == Max2((b[4] * 40) \div 100, h \div 100)
    IN  <<Max2(0, b[1] - pad_x), Max2(0, b[2] - pad_y),
          Min2(w, b[1] + b[3] + pad_x), Min2(h, b[2] + b[4] + pad_y)>>

\* candidates.sort(reverse=True), line 1027: entries are [score, roi]
RECURSIVE InsertByScore(_, _)
InsertByScore(sorted, e) ==
    IF sorted = <<>> THEN <<e>>
    ELSE IF Head(sorted).score >= e.score
         THEN <<Head(sorted)>> \o InsertByScore(Tail(sorted), e)
         ELSE <<e>> \o sorted

RECURSIVE SortByScore(_)
SortByScore(entries) ==
    IF entries = <<>> THEN <<>>
    ELSE InsertByScore(SortByScore(SubSeq(entries, 1, Len(entries) - 1)),
                       entries[Len(entries)])

\* img is [h, w, passes]: the bounding rectangles of the contours found at
\* the percentiles 85, 88 and 91
propose_bright_text_rois(img, max_rois) ==
    IF img.h < 40 \/ img.w < 40 THEN <<>>
    ELSE Once(Flatten(<<>> \o [p \in 1..Len(img.passes) |->
                  LET cs == SelectSeq(img.passes[p],
                                      LAMBDA b : BrightBlobPasses(img.h, img.w, b))
                  IN  <<>> \o [k \in 1..Len(cs) |->
                                  [score |-> BrightBlobScore(img.h, img.w, cs[k]),
                                   roi |-> BrightRoi(img.h, img.w, cs[k])]]]),
              LAMBDA candidates :
         Once(SortByScore(candidates), LAMBDA ordered :
             dedupe_rois(<<>> \o [k \in 1..Len(ordered) |-> ordered[k].roi], 62, max_rois)))

\* Masks of a 200 x 100 view: line blobs on one row (the third next to the
\* right border), a blob next to the left border, a blob too high for a
\* line and a blob too narrow.  Blobs on one row are more than 45 columns
\* apart and blobs of different rows more than 7 rows, so that the closing
\* of line 307 leaves them apart.
ViewH == 100
ViewW == 200
MaxBlobs == 2
TextBlobs ==
    {<<20, 50, 30, 8>>, <<100, 50, 40, 8>>, <<188, 51, 10, 6>>, <<2, 20, 12, 6>>,
     <<60, 70, 100, 28>>, <<150, 5, 3, 3>>}
Masks == {[h |-> ViewH, w |-> ViewW, blobs |-> b] : b \in DistinctSeqs(TextBlobs, MaxBlobs)}

\* ROIs inside the view, for expand_roi
InBoundsRois ==
    {<<0, 0, 200, 100>>, <<126, 46, 200, 62>>, <<0, 17, 120, 29>>, <<50, 40, 150, 60>>,
     <<199, 99, 200, 100>>, <<0, 0, 1, 1>>, <<10, 10, 10, 10>>, <<3, 2, 9, 97>>}

\* Views with the contours of the three bright passes
MaxContours == 1
BrightBlobs == {<<20, 50, 30, 8>>, <<150, 40, 50, 20>>, <<0, 0, 60, 10>>, <<90, 90, 8, 8>>}
BrightViews ==
    {[h |-> ViewH, w |-> ViewW, passes |-> <<p1, p2, p3>>] :
        p1 \in SeqsUpTo(BrightBlobs, MaxContours),
        p2 \in SeqsUpTo(BrightBlobs, MaxContours),
        p3 \in SeqsUpTo(BrightBlobs, MaxContours)}
    \cup {[h |-> 30, w |-> ViewW, passes |-> <<<<<<20, 10, 30, 8>>>>, <<>>, <<>>>>]}

InitRoi ==
    /\ call \in
          {[op |-> "find_text_roi", stage |-> "in", mask |-> m, res |-> NoTextRoi] :
              m \in Masks}
          \cup {[op |-> "expand_roi", stage |-> "in", roi |-> r,
                 shape |-> <<ViewH, ViewW>>, res |-> r] : r \in InBoundsRois}
          \cup {[op |-> "propose_bright_text_rois", stage |-> "in", img |-> v,
                 max_rois |-> n, res |-> <<>>] : v \in BrightViews, n \in {5, 7}}
    /\ lev = LevIdle
    /\ txt = TxtIdle
    /\ cons = ConsIdle
    /\ DriverIdle

ApplyFindTextRoi ==
    /\ call.op = "find_text_roi"
    /\ call.stage = "in"
    /\ call' = [call EXCEPT !.res = find_text_roi(call.mask), !.stage = "done"]
    /\ UNCHANGED <<lev, txt, cons, driverVars>>

ApplyExpandRoi ==
    /\ call.op = "expand_roi"
    /\ call.stage = "in"
    /\ call' = [call EXCEPT !.res = expand_roi(call.roi, call.shape), !.stage = "done"]
    /\ UNCHANGED <<lev, txt, cons, driverVars>>

ApplyBrightRois ==
    /\ call.op = "propose_bright_text_rois"
    /\ call.stage = "in"
    /\ call' = [call EXCEPT !.res = propose_bright_text_rois(call.img, call.max_rois),
                            !.stage = "done"]
    /\ UNCHANGED <<lev, txt, cons, driverVars>>

NextRoi ==
    \/ ApplyFindTextRoi
    \/ ApplyExpandRoi
    \/ ApplyBrightRois

SpecRoi == InitRoi /\ [][NextRoi]_vars

FindDone == call.op = "find_text_roi" /\ call.stage = "done"
ExpandDone == call.op = "expand_roi" /\ call.stage = "done"
BrightDone == call.op = "propose_bright_text_rois" /\ call.stage = "done"

\* C19: a ROI that find_text_roi returns for a view of width W is at least
\* int(0.60 * W) wide, wherever the merged blob lies.
C19_MinWidth ==
    (FindDone /\ call.res.found) =>
        call.res.roi[3] - call.res.roi[1] >= (call.mask.w * 60) \div 100

InBounds(roi, w, h) ==
    /\ 0 <= roi[1] /\ roi[1] <= roi[3] /\ roi[3] <= w
    /\ 0 <= roi[2] /\ roi[2] <= roi[4] /\ roi[4] <= h

\* C20: every ROI that find_text_roi (tightening included),
\* propose_bright_text_rois, or expand_roi applied to a ROI inside the view
\* gives for a view of width W and height H has 0 <= x0 <= x1 <= W and
\* 0 <= y0 <= y1 <= H.
C20_RoiInBounds ==
    /\ (FindDone /\ call.res.found) => InBounds(call.res.roi, call.mask.w, call.mask.h)
    /\ BrightDone =>
          \A k \in 1..Len(call.res) : InBounds(call.res[k], call.img.w, call.img.h)
    /\ (ExpandDone /\ InBounds(call.roi, call.shape[2], call.shape[1]))
          => InBounds(call.res, call.shape[2], call.shape[1])

\* the blob next to the right border: the padding is clipped and the ROI
\* ends at the border
C20_Witness ==
    /\ FindDone
    /\ call.mask.blobs = <<<<188, 51, 10, 6>>>>
    /\ call.res.found
    /\ call.res.clipped
    /\ call.res.roi[3] = call.mask.w

-----------------------------------------------------------------------------
(* detect_phone_screen_roi, ocr.py 129-205, on a uniform frame: img is      *)
(* [h, w, level], every pixel at the grey level.  On such a frame the blur  *)
(* of line 135 and the closing and opening of lines 141-146 change nothing. *)

NoScreen == [found |-> FALSE, bbox |-> <<0, 0, 0, 0>>, warped |-> <<0, 0>>]

\* lines 138-148: the external contours of the dark mask.  The mask is the
\* whole frame or nothing.  Of the whole frame findContours gives one
\* contour, the rectangle of the outermost pixels; inset is 1 for a build
\* that leaves out the frame's border pixels, else 0.
DarkContours(img, inset) ==
    LET dark_thr == Min2(Max2(img.level, 45), 100)
    IN  IF img.level < dark_thr
        THEN <<[x0 |-> inset, y0 |-> inset,
                x1 |-> img.w - 1 - inset, y1 |-> img.h - 1 - inset]>>
        ELSE <<>>

\* lines 157-175 for a rectangular contour: contour and rectangle area are
\* the same
ScreenContourPasses(img, c) ==
    LET rw == c.x1 - c.x0
        rh == c.y1 - c.y0
        contour_area == rw * rh
    IN  /\ ~(contour_area * 100 < img.h * img.w * 2)
        /\ ~(rw < 2 \/ rh < 2)
        /\ ~(10 * Max2(rw, rh) > 34 * Max2(1, Min2(rw, rh)))
        /\ ~(rw * 100 < 26 * img.w /\ rh * 100 < 26 * img.h)
        /\ ~(contour_area * 100 < 38 * Max2(1, contour_area))

\* scale_quad(quad, 1.03, w, h) along one axis, lines 86-94: the ends a <= b
\* moved away from their middle and clipped to 0 .. limit, in 1/200
ScaleEnds(a, b, limit) ==
    <<Min2(Max2(100 * (a + b) - 103 * (b - a), 0), 200 * limit),
      Min2(Max2(100 * (a + b) + 103 * (b - a), 0), 200 * limit)>>

\* quad_to_bbox along one axis, lines 97-104
BboxEnds(ends, size) ==
    <<Max2(0, ends[1] \div 200), Min2(size, -((-ends[2]) \div 200) + 1)>>

\* int(round(x)) for x = n / 200 >= 0, line 114: halves go to the even side
RoundHalfEven(n) ==
    LET q == n \div 200
        r == n % 200
    IN  IF r < 100 THEN q
        ELSE IF r > 100 THEN q + 1
        ELSE IF q % 2 = 0 THEN q ELSE q + 1

\* lines 178-205 for the one contour c that passed
ScreenFromContour(img, c) ==
    LET xs == ScaleEnds(c.x0, c.x1, Max2(0, img.w - 1))
        ys == ScaleEnds(c.y0, c.y1, Max2(0, img.h - 1))
        bbox == <<BboxEnds(xs, img.w)[1], BboxEnds(ys, img.h)[1],
                  BboxEnds(xs, img.w)[2], BboxEnds(ys, img.h)[2]>>
        out_w == RoundHalfEven(xs[2] - xs[1])
        out_h == RoundHalfEven(ys[2] - ys[1])
    IN  IF out_w < 40 \/ out_h < 40
        THEN IF bbox[3] - bbox[1] < 8 \/ bbox[4] - bbox[2] < 8 THEN NoScreen
             ELSE [found |-> TRUE, bbox |-> bbox,
                   warped |-> <<bbox[4] - bbox[2], bbox[3] - bbox[1]>>]
        ELSE [found |-> TRUE, bbox |-> bbox, warped |-> <<out_h, out_w>>]

detect_phone_screen_roi(img, inset) ==
    IF img.h < 80 \/ img.w < 80 THEN NoScreen
    ELSE LET passing == SelectSeq(DarkContours(img, inset),
                                  LAMBDA c : ScreenContourPasses(img, c))
         IN  IF passing = <<>> THEN NoScreen
             ELSE ScreenFromContour(img, passing[1])

\* uniform frames
FrameSides == {79, 80, 120, 200}
GreyLevels == {0, 10, 44, 45, 100, 255}

InitScreen ==
    /\ call \in {[op |-> "detect_phone_screen_roi", stage |-> "in",
                  img |-> [h |-> h, w |-> w, level |-> g], res |-> NoScreen] :
                    h \in FrameSides, w \in FrameSides, g \in GreyLevels}
    /\ lev = LevIdle
    /\ txt = TxtIdle
    /\ cons = ConsIdle
    /\ DriverIdle

ApplyDetectScreen ==
    /\ call.op = "detect_phone_screen_roi"
    /\ call.stage = "in"
    /\ \E inset \in {0, 1} :
          call' = [call EXCEPT !.res = detect_phone_screen_roi(call.img, inset),
                               !.stage = "done"]
    /\ UNCHANGED <<lev, txt, cons, driverVars>>

NextScreen == ApplyDetectScreen

SpecScreen == InitScreen /\ [][NextScreen]_vars

\* C16: for a fully black 200 x 200 frame detect_phone_screen_roi returns
\* none.
C16_BlackFrameNone ==
    (/\ call.op = "detect_phone_screen_roi"
     /\ call.stage = "done"
     /\ call.img = [h |-> 200, w |-> 200, level |-> 0])
    => ~call.res.found

-----------------------------------------------------------------------------
(* apply_gamma_correction, ocr.py 241-263.  An image is the sequence of its *)
(* grey levels (B = G = R, so that cvtColor gives the level itself); a      *)
(* gamma value is held in hundredths; a lookup table is held at the levels  *)
(* of GreySamples.  The cache is a function from the gamma values met so    *)
(* far to their tables.                                                     *)

GreySamples == {0, 64, 128, 192, 255}
GammaKeys == {75, 85, 115, 130}

\* line 241
EmptyCache == [g \in {} |-> <<>>]

\* lines 245-256: the gamma of the mean luminance, 0 when the image is
\* returned as it is
GammaOf(img) ==
    LET total == SumSeq(img)
        n == Len(img)
    IN  IF total < 80 * n THEN 75
        ELSE IF total < 120 * n THEN 85
        ELSE IF total > 200 * n THEN 130
        ELSE IF total > 160 * n THEN 115
        ELSE 0

\* line 260, min(255, int((i / 255.0) ** inv * 255.0)), at the sampled levels
GammaLevel(gamma, i) ==
    CASE i = 0 -> 0
      [] i = 255 -> 255
      [] gamma = 75 -> (IF i = 64 THEN 40 ELSE IF i = 128 THEN 101 ELSE 174)
      [] gamma = 85 -> (IF i = 64 THEN 50 ELSE IF i = 128 THEN 113 ELSE 182)
      [] gamma = 115 -> (IF i = 64 THEN 76 ELSE IF i = 128 THEN 140 ELSE 199)
      [] gamma = 130 -> (IF i = 64 THEN 88 ELSE IF i = 128 THEN 150 ELSE 204)

\* lines 258-262
BuildLut(gamma) == [i \in GreySamples |-> GammaLevel(gamma, i)]

\* cv2.LUT, line 263
ApplyLut(img, lut) == [k \in 1..Len(img) |-> lut[img[k]]]

\* faulty variant: a miss replaces the whole cache by the new table
apply_gamma_correction_evict(bgr_crop, cache) ==
    LET gamma == GammaOf(bgr_crop)
    IN  IF gamma = 0 THEN [res |-> bgr_crop, cache |-> cache]
        ELSE LET filled == IF gamma \in DOMAIN cache THEN cache
                           ELSE [g \in {gamma} |-> BuildLut(gamma)]
             IN  [res |-> ApplyLut(bgr_crop, filled[gamma]), cache |-> filled]

\* lines 244-263; the result and the cache after the call
apply_gamma_correction(bgr_crop, cache) ==
    LET gamma == GammaOf(bgr_crop)
    IN  IF gamma = 0 THEN [res |-> bgr_crop, cache |-> cache]
        ELSE LET filled == IF gamma \in DOMAIN cache THEN cache
                           ELSE [g \in DOMAIN cache \cup {gamma} |->
                                    IF g = gamma THEN BuildLut(gamma) ELSE cache[g]]
             IN  [res |-> ApplyLut(bgr_crop, filled[gamma]), cache |-> filled]

\* Images of the checked calls
MaxPixels == 2
GammaImages == SeqsUpTo(GreySamples, MaxPixels) \ {<<>>}

InitGamma ==
    /\ lev = LevIdle
    /\ txt = TxtIdle
    /\ cons = ConsIdle
    /\ DriverIdle
    /\ call = CallIdle

\* one call of apply_gamma_correction (line 418), in any frame
ApplyGamma ==
    /\ \E img \in GammaImages :
          LET r == apply_gamma_correction(img, gamma_lut_cache)
          IN  /\ call' = [op |-> "gamma", stage |-> "done", img |-> img,
                          hit |-> GammaOf(img) \in DOMAIN gamma_lut_cache,
                          res |-> r.res]
              /\ gamma_lut_cache' = r.cache
    /\ UNCHANGED <<lev, txt, cons, pc, stream, nread, out, reader, use_gpu, hist,
                 fast_mode, passes>>

NextGamma == ApplyGamma

SpecGamma == InitGamma /\ [][NextGamma]_vars

GammaDone == call.op = "gamma" /\ call.stage = "done"

\* what a call gives when the table is built on that call
FreshResult(img) == apply_gamma_correction(img, EmptyCache).res

\* C21: the cache holds at most four tables, under keys among 0.75, 0.85,
\* 1.15 and 1.3; a table once inserted is neither changed nor removed; and
\* a call gives the same image whether its table was cached or is built on
\* that call
C21_BoundedMemo ==
    /\ [](/\ DOMAIN gamma_lut_cache \subseteq GammaKeys
          /\ Cardinality(DOMAIN gamma_lut_cache) <= 4
          /\ GammaDone => call.res = FreshResult(call.img))
    /\ [][\A g \in DOMAIN gamma_lut_cache :
             g \in DOMAIN gamma_lut_cache' /\ gamma_lut_cache'[g] = gamma_lut_cache[g]]_vars

\* a call served from the cache while the cache holds all four tables, on
\* an image the table changes
C21_Witness ==
    /\ GammaDone
    /\ call.hit
    /\ call.res # call.img
    /\ DOMAIN gamma_lut_cache = GammaKeys

-----------------------------------------------------------------------------
(* main(), ocr.py 1208-1500: the frame loop.  A unit of the stream is a     *)
(* record: kind "frame" is a unit whose header and body are complete, with  *)
(* decodable (cv2.imdecode returns an image), img_shape, screen (what       *)
(* detect_phone_screen_roi returns), text_roi (what find_text_roi returns   *)
(* for the working view), bright (the ROIs of propose_bright_text_rois),    *)
(* view_rois (what find_text_roi returns for the fallback views) and reads  *)
(* (what run_ocr_on_crop returns for the crops of the frame) and crop (the  *)
(* grey levels of those crops); kinds                                       *)
(* "short_header" and "short_body" are the end of input inside a header or  *)
(* a body.                                                                  *)

\* ensure_reader(), lines 1239-1267.  first_ok and retry_ok say whether the
\* construction of line 1244 and the one of line 1253 succeed; fresh is the
\* instance a successful construction yields.  The result carries the new
\* reader and use_gpu, the constructions attempted, and whether it raised.
ensure_reader_always(rd, gpu, fresh, first_ok, retry_ok) ==
    IF first_ok
    THEN [reader |-> fresh, use_gpu |-> gpu, raised |-> FALSE,
          attempts |-> <<[gpu |-> gpu, ok |-> TRUE]>>]
    ELSE IF gpu
    THEN [reader |-> IF retry_ok THEN fresh ELSE rd, use_gpu |-> FALSE,
          raised |-> ~retry_ok,
          attempts |-> <<[gpu |-> TRUE, ok |-> FALSE], [gpu |-> FALSE, ok |-> retry_ok]>>]
    ELSE [reader |-> rd, use_gpu |-> gpu, raised |-> TRUE,
          attempts |-> <<[gpu |-> FALSE, ok |-> FALSE]>>]

ensure_reader_noretry(rd, gpu, fresh, first_ok, retry_ok) ==
    IF rd # None
    THEN [reader |-> rd, use_gpu |-> gpu, raised |-> FALSE, attempts |-> <<>>]
    ELSE IF first_ok
    THEN [reader |-> fresh, use_gpu |-> gpu, raised |-> FALSE,
          attempts |-> <<[gpu |-> gpu, ok |-> TRUE]>>]
    ELSE [reader |-> rd, use_gpu |-> FALSE, raised |-> TRUE,
          attempts |-> <<[gpu |-> gpu, ok |-> FALSE]>>]

ensure_reader(rd, gpu, fresh, first_ok, retry_ok) ==
    IF rd # None
    THEN [reader |-> rd, use_gpu |-> gpu, raised |-> FALSE, attempts |-> <<>>]
    ELSE IF first_ok
    THEN [reader |-> fresh, use_gpu |-> gpu, raised |-> FALSE,
          attempts |-> <<[gpu |-> gpu, ok |-> TRUE]>>]
    ELSE IF gpu
    THEN [reader |-> IF retry_ok THEN fresh ELSE rd, use_gpu |-> FALSE,
          raised |-> ~retry_ok,
          attempts |-> <<[gpu |-> TRUE, ok |-> FALSE], [gpu |-> FALSE, ok |-> retry_ok]>>]
    ELSE [reader |-> rd, use_gpu |-> gpu, raised |-> TRUE,
          attempts |-> <<[gpu |-> FALSE, ok |-> FALSE]>>]

\* max(candidates, key=score_result), lines 1478: the first candidate of
\* maximal score
BestCandidate(candidates) ==
    LET sc == <<>> \o [k \in 1..Len(candidates) |->
                          score_result(candidates[k].results, candidates[k].combined)]
        k == CHOOSE k \in 1..Len(candidates) : \A m \in 1..Len(candidates) :
                 /\ sc[m] <= sc[k]
                 /\ (m < k => sc[m] < sc[k])
    IN  candidates[k]

\* b"\\n", lines 1283 and 1499
BlankLine == [kind |-> "blank", conf |-> 0, text |-> <<>>]

\* f"{conf:.4f}" of a confidence held in 1/10000, after the factor 0.70 of a
\* clipped ROI (line 1492), rounded to the fourth decimal
FinalConfidence(conf, roi_clipped) ==
    IF roi_clipped THEN (conf * 70 + 50) \div 100 ELSE conf

\* lines 1477-1500: the lines one decoded frame writes, given the candidates
\* of its passes
FrameLines(candidates, roi_clipped) ==
    Once(BestCandidate(candidates), LAMBDA best :
    Once(select_consensus_candidate(candidates), LAMBDA consensus :
    Once(IF consensus.text # <<>> THEN consensus.text ELSE best.combined, LAMBDA picked :
    Once(IF picked # <<>> THEN normalize_ocr_text(best_text_window(picked)) ELSE picked,
         LAMBDA combined :
             (IF combined # <<>>
              THEN <<[kind |-> "FINAL",
                      conf |-> FinalConfidence(
                                   IF consensus.text # <<>> THEN consensus.conf
                                   ELSE candidate_confidence(best.results),
                                   roi_clipped),
                      text |-> combined]>>
              ELSE <<>>)
             \o <<BlankLine>>))))

\* the lines of one unit, tagged with the unit
Tagged(lines, unit) ==
    [k \in 1..Len(lines) |-> [unit |-> unit, line |-> lines[k]]]

\* the instances constructed successfully so far
Constructed == {i \in 1..Len(hist) : hist[i].ev = "construct" /\ hist[i].ok}

\* lines 1272-1279: the header or the body comes short, the loop breaks
EndOfInput ==
    /\ pc = "read"
    /\ \/ /\ nread = Len(stream)
          /\ nread' = nread
       \/ /\ nread < Len(stream)
          /\ stream[nread + 1].kind \in {"short_header", "short_body"}
          /\ nread' = nread + 1
    /\ pc' = "done"
    /\ UNCHANGED <<stream, out, reader, use_gpu, hist, lev, txt, cons, call,
                 fast_mode, passes, gamma_lut_cache>>

\* lines 1281-1285: the image does not decode; a blank line, next unit
DecodeFailure ==
    /\ pc = "read"
    /\ nread < Len(stream)
    /\ stream[nread + 1].kind = "frame"
    /\ ~stream[nread + 1].decodable
    /\ nread' = nread + 1
    /\ out' = Append(out, [unit |-> nread + 1, line |-> BlankLine])
    /\ UNCHANGED <<pc, stream, reader, use_gpu, hist, lev, txt, cons, call,
                 fast_mode, passes, gamma_lut_cache>>

\* lines 1281-1355: the image decodes; ROI selection, then the engine is needed
DecodeFrame ==
    /\ pc = "read"
    /\ nread < Len(stream)
    /\ stream[nread + 1].kind = "frame"
    /\ stream[nread + 1].decodable
    /\ nread' = nread + 1
    /\ pc' = "ensure"
    /\ UNCHANGED <<stream, out, reader, use_gpu, hist, lev, txt, cons, call,
                 fast_mode, passes, gamma_lut_cache>>

\* line 1356: reader = ensure_reader(); an exception it raises leaves main()
EnsureReader ==
    /\ pc = "ensure"
    /\ \E first_ok \in BOOLEAN, retry_ok \in BOOLEAN :
          LET r == ensure_reader(reader, use_gpu, Cardinality(Constructed) + 1,
                                 first_ok, retry_ok)
          IN  /\ reader' = r.reader
              /\ use_gpu' = r.use_gpu
              /\ hist' = hist \o
                    (IF r.attempts = <<>>
                     THEN <<[unit |-> nread, ev |-> "reuse", gpu |-> r.use_gpu,
                             ok |-> TRUE, reader |-> r.reader]>>
                     ELSE [k \in 1..Len(r.attempts) |->
                             [unit |-> nread, ev |-> "construct",
                              gpu |-> r.attempts[k].gpu, ok |-> r.attempts[k].ok,
                              reader |-> IF r.attempts[k].ok THEN r.reader ELSE None]])
              /\ pc' = IF r.raised THEN "crashed" ELSE "recognize"
    /\ UNCHANGED <<stream, nread, out, lev, txt, cons, call,
                 fast_mode, passes, gamma_lut_cache>>

\* lines 1358-1475 when a call of the engine (read_text, lines 482-493) or of
\* the image library raises: nothing catches it, main() is left
RecognitionRaises ==
    /\ pc = "recognize"
    /\ pc' = "crashed"
    /\ gamma_lut_cache' \in
          {gamma_lut_cache,
           apply_gamma_correction(stream[nread].crop, gamma_lut_cache).cache}
    /\ UNCHANGED <<stream, nread, out, reader, use_gpu, hist, lev, txt, cons, call,
                 fast_mode, passes>>

\* a pass that reads nothing
EmptyCandidate == [results |-> <<>>, combined |-> <<>>]

\* work_img.shape, lines 1302-1306: the warped screen when one was found
WorkShape(u) == IF u.screen.found THEN u.screen.warped ELSE u.img_shape

\* roi_clipped, lines 1312-1314: the flag of the ROI find_text_roi returned
RoiClipped(u) == u.text_roi.found /\ u.text_roi.clipped

\* lines 1310-1323: the ROIs of the two detectors that survive
SurvivingRois(u, fast) ==
    LET shape == WorkShape(u)
        r == u.text_roi
        lines == IF ~r.found THEN <<>>
                 ELSE IF r.clipped
                 THEN <<r.roi, <<0, Max2(0, r.roi[2]), shape[2], Min2(shape[1], r.roi[4])>>>>
                 ELSE <<r.roi>>
    IN  prioritize_rois(dedupe_rois(lines \o u.bright, 62, IF fast THEN 6 ELSE 9), shape)

\* faulty variant: the fallback is the upper half of the view
RoiCandidates_half(u, fast) ==
    Once(SurvivingRois(u, fast), LAMBDA kept :
        IF kept = <<>> THEN <<<<0, 0, WorkShape(u)[2], WorkShape(u)[1] \div 2>>>>
        ELSE kept)

\* lines 1310-1325: the ROI candidates of the working view
RoiCandidates(u, fast) ==
    Once(SurvivingRois(u, fast), LAMBDA kept :
        IF kept = <<>> THEN <<<<0, 0, WorkShape(u)[2], WorkShape(u)[1]>>>>
        ELSE kept)

\* was this ROI marked clipped: it is the ROI of find_text_roi and its flag
\* is set
MarkedClipped(u, roi) == RoiClipped(u) /\ roi = u.text_roi.roi

\* what run_ocr_on_crop returns in this frame for the crop named by key
Reading(u, key) ==
    LET hits == {k \in 1..Len(u.reads) : u.reads[k].key = key}
    IN  IF hits = {} THEN EmptyCandidate
        ELSE u.reads[CHOOSE k \in hits : \A m \in hits : k <= m].cand

\* one call of run_ocr_on_crop, appended to the calls of the frame
RunOcr(u, att, src, idx, roi, clipped) ==
    Append(att, [src |-> src, roi |-> roi, clipped |-> clipped,
                 results |-> Reading(u, <<src, idx>>).results,
                 combined |-> Reading(u, <<src, idx>>).combined])

IsGood(c) == is_good_candidate(c.results, c.combined)

\* faulty variant: a ROI that reads nothing leaves no candidate
RECURSIVE FirstPass_skipempty(_, _, _, _, _)
FirstPass_skipempty(u, fast, rois, k, att) ==
    IF k > Len(rois) \/ (fast /\ k > 3) THEN att
    ELSE Once(RunOcr(u, att, "roi", k, rois[k], MarkedClipped(u, rois[k])), LAMBDA a :
             IF a[Len(a)].combined = <<>>
             THEN FirstPass_skipempty(u, fast, rois, k + 1, att)
             ELSE IF /\ IsGood(a[Len(a)])
                     /\ candidate_confidence(a[Len(a)].results) >= 8600
                     /\ Len(a[Len(a)].combined) >= 16
                  THEN a
                  ELSE FirstPass_skipempty(u, fast, rois, k + 1, a))

\* lines 1364-1377: pass 1 over the ROI candidates from the k-th on
RECURSIVE FirstPass(_, _, _, _, _)
FirstPass(u, fast, rois, k, att) ==
    IF k > Len(rois) \/ (fast /\ k > 3) THEN att
    ELSE Once(RunOcr(u, att, "roi", k, rois[k], MarkedClipped(u, rois[k])), LAMBDA a :
             IF /\ IsGood(a[Len(a)])
                /\ candidate_confidence(a[Len(a)].results) >= 8600
                /\ Len(a[Len(a)].combined) >= 16
             THEN a
             ELSE FirstPass(u, fast, rois, k + 1, a))

\* lines 1379-1382: no candidate yet, the whole working view is read
WholeViewPass(u, att) ==
    IF att = <<>>
    THEN RunOcr(u, att, "whole", 1, <<0, 0, WorkShape(u)[2], WorkShape(u)[1]>>, FALSE)
    ELSE att

\* lines 1384-1392: fast-mode recovery on the first ROI
RecoveryPass(u, fast, rois, att) ==
    IF fast /\ ~IsGood(BestCandidate(att))
    THEN RunOcr(u, att, "recovery", 1, rois[1], MarkedClipped(u, rois[1]))
    ELSE att

\* lines 1394-1399: the first ROI mirrored, when its first reading is weak
MirrorPass(u, fast, rois, att) ==
    IF ~fast /\ ~IsGood(att[1])
    THEN RunOcr(u, att, "mirror", 1, rois[1], MarkedClipped(u, rois[1]))
    ELSE att

\* lines 1401-1417: the first ROI expanded, and the expansion mirrored
ExpandedPass(u, fast, rois, att) ==
    IF IsGood(BestCandidate(att)) THEN att
    ELSE LET ex == expand_roi(rois[1], WorkShape(u))
         IN  IF ex = rois[1] THEN att
             ELSE Once(RunOcr(u, att, "expanded", 1, ex, MarkedClipped(u, rois[1])),
                       LAMBDA a :
                  IF ~fast /\ ~IsGood(a[Len(a)])
                  THEN RunOcr(u, a, "expanded_mirror", 1, ex, MarkedClipped(u, rois[1]))
                  ELSE a)

\* sorted(roi_attempts, key=score_result, reverse=True), line 1425
RECURSIVE InsertByResultScore(_, _)
InsertByResultScore(sorted, e) ==
    IF sorted = <<>> THEN <<e>>
    ELSE IF score_result(Head(sorted).results, Head(sorted).combined)
               >= score_result(e.results, e.combined)
         THEN <<Head(sorted)>> \o InsertByResultScore(Tail(sorted), e)
         ELSE <<e>> \o sorted

RECURSIVE SortByResultScore(_)
SortByResultScore(entries) ==
    IF entries = <<>> THEN <<>>
    ELSE InsertByResultScore(SortByResultScore(SubSeq(entries, 1, Len(entries) - 1)),
                             entries[Len(entries)])

\* lines 1424-1432: up to two distinct ROIs of pass 1 that read something
RECURSIVE SeedRois(_, _, _)
SeedRois(sorted, k, seeds) ==
    IF k > Len(sorted) THEN seeds
    ELSE IF \E s \in 1..Len(seeds) : seeds[s] = sorted[k].roi
    THEN SeedRois(sorted, k + 1, seeds)
    ELSE LET ns == IF sorted[k].combined # <<>> THEN Append(seeds, sorted[k].roi)
                   ELSE seeds
         IN  IF Len(ns) >= 2 THEN ns ELSE SeedRois(sorted, k + 1, ns)

\* lines 1436-1444: the seed ROIs from the s-th on, each at four angles
RECURSIVE RotateSeeds(_, _, _, _)
RotateSeeds(u, seeds, s, att) ==
    IF s > Len(seeds) THEN att
    ELSE LET c == MarkedClipped(u, seeds[s])
         IN  RotateSeeds(u, seeds, s + 1,
                 RunOcr(u, RunOcr(u, RunOcr(u, RunOcr(u, att,
                     "rotated", s, seeds[s], c),
                     "rotated", s, seeds[s], c),
                     "rotated", s, seeds[s], c),
                     "rotated", s, seeds[s], c))

\* lines 1419-1444: rotation recovery; first are the calls of pass 1
RotationPass(u, rois, first, att) ==
    Once(BestCandidate(att), LAMBDA cur_best :
        IF candidate_confidence(cur_best.results) < 8000 \/ Len(cur_best.combined) < 16
        THEN Once(SeedRois(SortByResultScore(first), 1, <<>>), LAMBDA seeds :
                 RotateSeeds(u, IF seeds = <<>> THEN <<rois[1]>> ELSE seeds, 1, att))
        ELSE att)

\* lines 1460-1475 for one fallback view: the text ROI of the view, its clip
\* flag dropped, or the whole view
ViewPass(u, name, whole, att) ==
    LET v == u.view_rois[name]
    IN  IF v.found THEN RunOcr(u, att, name, 1, v.roi, v.clipped)
        ELSE RunOcr(u, att, name, 1, whole, FALSE)

\* lines 1446-1475: the views without the warp
FallbackViews(u, att) ==
    Once(BestCandidate(att), LAMBDA cur_best :
        IF ~IsGood(cur_best) \/ Len(cur_best.combined) < 16
        THEN LET b == u.screen.bbox
                 a1 == IF /\ u.screen.found
                          /\ b[3] - b[1] >= 16
                          /\ b[4] - b[2] >= 16
                       THEN ViewPass(u, "bbox", <<0, 0, b[3] - b[1], b[4] - b[2]>>, att)
                       ELSE att
             IN  ViewPass(u, "full", <<0, 0, u.img_shape[2], u.img_shape[1]>>, a1)
        ELSE att)

\* lines 1302-1475: the calls of run_ocr_on_crop for one decoded frame, in
\* order, each with its crop and its reading
FrameAttempts(u, fast) ==
    Once(RoiCandidates(u, fast), LAMBDA rois :
    Once(WholeViewPass(u, FirstPass(u, fast, rois, 1, <<>>)), LAMBDA first :
    Once(RecoveryPass(u, fast, rois, first), LAMBDA a2 :
    Once(MirrorPass(u, fast, rois, a2), LAMBDA a3 :
    Once(ExpandedPass(u, fast, rois, a3), LAMBDA a4 :
    Once(RotationPass(u, rois, first, a4), LAMBDA a5 :
        FallbackViews(u, a5)))))))

\* lines 1302-1500 for one decoded frame: the recognition calls and the
\* lines written
FrameOutcome(u, fast) ==
    Once(FrameAttempts(u, fast), LAMBDA att :
        [attempts |-> att,
         consensus |-> select_consensus_candidate(att),
         lines |-> FrameLines(att, RoiClipped(u))])

\* Units of the checked streams.  The readings of a frame with text are the
\* first 13 characters of the token of the tests and a noisy reading of them.
MaxFrames == 3
FrameToken == <<"T", "3", "*", "1", "-", "B", "?", "+", "A", "c", "J", "3", "@">>
FrameNoisy == <<"T", "3", "1", "-", "B", "7", "+", "A", "c", "J", "3", "@">>

NoTextCandidates == <<[results |-> <<>>, combined |-> <<>>]>>
TokenCandidates ==
    <<ReadingCandidate(FrameNoisy, 70), ReadingCandidate(FrameToken, 80),
      [results |-> <<>>, combined |-> <<>>], ReadingCandidate(FrameToken, 90)>>

FrameUnit(decodable, screen, text_roi, view_rois, reads, crop) ==
    [kind |-> "frame", decodable |-> decodable, img_shape |-> <<ViewH, ViewW>>,
     screen |-> screen, text_roi |-> text_roi, bright |-> <<>>,
     view_rois |-> view_rois, reads |-> reads, crop |-> crop]
ShortUnit(kind) ==
    [kind |-> kind, decodable |-> FALSE, img_shape |-> <<ViewH, ViewW>>,
     screen |-> NoScreen, text_roi |-> NoTextRoi, bright |-> <<>>,
     view_rois |-> [bbox |-> NoTextRoi, full |-> NoTextRoi], reads |-> <<>>,
     crop |-> <<128>>]

\* an image that does not decode
UndecodableUnit ==
    FrameUnit(FALSE, NoScreen, NoTextRoi, [bbox |-> NoTextRoi, full |-> NoTextRoi], <<>>,
              <<128>>)

\* a frame without screen and without text: neither detector gives a ROI
\* and no pass reads anything
NoTextUnit ==
    FrameUnit(TRUE, NoScreen, NoTextRoi, [bbox |-> NoTextRoi, full |-> NoTextRoi], <<>>,
              <<128, 128>>)

\* a frame with a screen, warped to 160 x 80, and a text line in it: the
\* text ROI reads the noisy token, its second reading and the full view
\* read the token
WarpedMask == [h |-> 80, w |-> 160, blobs |-> <<<<50, 40, 60, 8>>>>]
FullMask == [h |-> ViewH, w |-> ViewW, blobs |-> <<<<70, 50, 60, 8>>>>]
TokenUnit ==
    FrameUnit(TRUE,
              [found |-> TRUE, bbox |-> <<20, 10, 180, 90>>, warped |-> <<80, 160>>],
              find_text_roi(WarpedMask),
              [bbox |-> find_text_roi(WarpedMask), full |-> find_text_roi(FullMask)],
              <<[key |-> <<"roi", 1>>, cand |-> TokenCandidates[1]],
                [key |-> <<"recovery", 1>>, cand |-> TokenCandidates[2]],
                [key |-> <<"mirror", 1>>, cand |-> TokenCandidates[2]],
                [key |-> <<"expanded", 1>>, cand |-> TokenCandidates[3]],
                [key |-> <<"full", 1>>, cand |-> TokenCandidates[4]]>>,
              <<0, 64>>)

\* a frame without screen whose text line lies next to the right border:
\* the text ROI is clipped and reads nothing, the full-width ROI, first in
\* priority, reads the token
ClippedMask == [h |-> ViewH, w |-> ViewW, blobs |-> <<<<188, 51, 10, 6>>>>]
ClippedUnit ==
    FrameUnit(TRUE, NoScreen, find_text_roi(ClippedMask),
              [bbox |-> NoTextRoi, full |-> find_text_roi(ClippedMask)],
              <<[key |-> <<"roi", 1>>, cand |-> ReadingCandidate(FrameToken, 80)]>>,
              <<0, 192>>)

\* the same frame when the clipped text ROI reads the whole token of the
\* tests with high confidence and the full-width ROI reads nothing
ClippedGoodUnit ==
    FrameUnit(TRUE, NoScreen, find_text_roi(ClippedMask),
              [bbox |-> NoTextRoi, full |-> find_text_roi(ClippedMask)],
              <<[key |-> <<"roi", 2>>, cand |-> ReadingCandidate(ExampleToken, 90)]>>,
              <<192, 255>>)

FrameUnits == {UndecodableUnit, NoTextUnit, TokenUnit, ClippedUnit, ClippedGoodUnit}

\* the outcome of lines 1302-1500 for the units of the checked streams
FrameOutcomes ==
    {[unit |-> u, fast |-> f, outcome |-> FrameOutcome(u, f)] :
        u \in FrameUnits, f \in BOOLEAN}

Outcome(u, fast) ==
    (CHOOSE r \in FrameOutcomes : r.unit = u /\ r.fast = fast).outcome

\* lines 1358-1500 when the passes return: FINAL line if there is a token,
\* the blank line, next unit
FinishFrame ==
    /\ pc = "recognize"
    /\ out' = out \o Tagged(Outcome(stream[nread], fast_mode).lines, nread)
    /\ passes' = passes \o Tagged(Outcome(stream[nread], fast_mode).attempts, nread)
    /\ gamma_lut_cache' =
          apply_gamma_correction(stream[nread].crop, gamma_lut_cache).cache
    /\ pc' = "read"
    /\ UNCHANGED <<stream, nread, reader, use_gpu, hist, lev, txt, cons, call,
                 fast_mode>>

\* complete units, then the end of input: clean, or inside a header or a body
Streams ==
    {f \o t : f \in SeqsUpTo(FrameUnits, MaxFrames),
              t \in {<<>>, <<ShortUnit("short_header")>>, <<ShortUnit("short_body")>>}}

Init ==
    /\ stream \in Streams
    /\ use_gpu \in BOOLEAN
    /\ pc = "read"
    /\ nread = 0
    /\ out = <<>>
    /\ reader = None
    /\ hist = <<>>
    /\ fast_mode \in BOOLEAN
    /\ passes = <<>>
    /\ gamma_lut_cache = EmptyCache
    /\ lev = LevIdle
    /\ txt = TxtIdle
    /\ cons = ConsIdle
    /\ call = CallIdle

Next ==
    \/ EndOfInput
    \/ DecodeFailure
    \/ DecodeFrame
    \/ EnsureReader
    \/ RecognitionRaises
    \/ FinishFrame

Spec == Init /\ [][Next]_vars

-----------------------------------------------------------------------------
(* Claims about the frame loop (specification Spec) *)

\* the lines written for unit k, in order
UnitLines(k) ==
    LET of(e) == e.unit = k
        sel == SelectSeq(out, of)
    IN  [i \in 1..Len(sel) |-> sel[i].line]

\* the loop is through with unit k: it went on, or main() has ended
UnitFinished(k) == k < nread \/ (k = nread /\ pc \in {"read", "done", "crashed"})

\* main() was left by the exception of a failed engine construction
InitFailed == pc = "crashed" /\ reader = None

\* C1: every unit read with complete header and body gets exactly one blank
\* line, as its last line, after at most one FINAL line; the FINAL line is
\* there only if the consensus token is not empty; a unit whose image does
\* not decode gets the blank line only, and the loop goes on.  (A frame on
\* which the engine construction fails for good is left aside.)
C1_UnitOutput ==
    \A k \in 1..nread :
        (/\ stream[k].kind = "frame"
         /\ UnitFinished(k)
         /\ ~(k = nread /\ InitFailed))
        => LET ls == UnitLines(k)
           IN  /\ ls # <<>>
               /\ ls[Len(ls)] = BlankLine
               /\ Len(ls) <= 2
               /\ Len(ls) = 2
                    => /\ ls[1].kind = "FINAL"
                       /\ Outcome(stream[k], fast_mode).consensus.text # <<>>
               /\ ~stream[k].decodable => (ls = <<BlankLine>> /\ pc # "crashed")

\* C2: once the engine is constructed no failure of a frame leaves the frame
\* loop: main() is never ended by an exception while it holds an engine.
C2_FrameFailureContained == reader # None => pc # "crashed"

\* C3: at most one engine construction succeeds; constructions are attempted
\* only while a decoded frame is processed, the first of them at the first
\* decoded frame; after a successful construction every later frame reuses
\* that instance.
C3_ConstructedOnce ==
    /\ Cardinality(Constructed) <= 1
    /\ \A i \in 1..Len(hist) :
          /\ stream[hist[i].unit].kind = "frame"
          /\ stream[hist[i].unit].decodable
    /\ hist # <<>> =>
          \A k \in 1..(hist[1].unit - 1) :
              ~(stream[k].kind = "frame" /\ stream[k].decodable)
    /\ \A i \in Constructed :
          /\ \A j \in (i + 1)..Len(hist) :
                /\ hist[j].ev = "reuse"
                /\ hist[j].reader = hist[i].reader
                /\ hist[j].unit > hist[i].unit
          /\ reader = hist[i].reader
    /\ reader # None => Constructed # {}

\* a frame that does not decode, the frame that constructs the engine, and a
\* later frame that reuses it
C3_Witness ==
    /\ Len(hist) = 2
    /\ hist[1].ev = "construct" /\ hist[1].ok /\ hist[1].unit = 2
    /\ hist[2].ev = "reuse" /\ hist[2].unit = 3
    /\ hist[2].reader = hist[1].reader
    /\ pc = "read"

\* C4: a construction that fails on the accelerated backend is followed, in
\* the same frame, by exactly one construction on the other backend, and the
\* backend flag is off from then on; a construction that fails on the
\* non-accelerated backend is the last one: its exception ends main(), and
\* the frame has no line.
C4_FallbackOnce ==
    \A i \in 1..Len(hist) :
        (hist[i].ev = "construct" /\ ~hist[i].ok)
        => IF hist[i].gpu
           THEN /\ i < Len(hist)
                /\ hist[i + 1].ev = "construct"
                /\ ~hist[i + 1].gpu
                /\ hist[i + 1].unit = hist[i].unit
                /\ \A j \in (i + 2)..Len(hist) : hist[j].ev = "reuse" /\ ~hist[j].gpu
                /\ ~use_gpu
           ELSE /\ i = Len(hist)
                /\ pc = "crashed"
                /\ reader = None
                /\ UnitLines(hist[i].unit) = <<>>
                /\ Cardinality({j \in 1..Len(hist) : hist[j].ev = "construct"}) <= 2

\* after a frame that was answered, the construction fails on the accelerated
\* backend and the retry fails too
C4_Witness ==
    /\ Len(hist) = 2
    /\ hist[1].gpu /\ ~hist[1].ok
    /\ ~hist[2].gpu /\ ~hist[2].ok
    /\ hist[2].unit = 2
    /\ pc = "crashed"
    /\ ~use_gpu
    /\ UnitLines(1) = <<BlankLine>>
    /\ UnitLines(2) = <<>>


\* the calls of run_ocr_on_crop made for unit k, in order
UnitAttempts(k) ==
    LET of(e) == e.unit = k
        sel == SelectSeq(passes, of)
    IN  [i \in 1..Len(sel) |-> sel[i].line]

\* the calls for unit k whose reading is the text of its FINAL line
WinningAttempts(k) ==
    {i \in 1..Len(UnitAttempts(k)) :
        ConsensusEntryText(UnitAttempts(k)[i].combined) = UnitLines(k)[1].text}

\* C13: the confidence of the FINAL line is the consensus confidence times
\* 0.70 when the ROI that produced the winning reading was marked clipped,
\* and the consensus confidence itself when the winning reading came from a
\* ROI or view that was not marked clipped.
C13_ClippedFactor ==
    \A k \in 1..nread :
        (/\ stream[k].kind = "frame"
         /\ Len(UnitLines(k)) = 2
         /\ WinningAttempts(k) # {})
        => LET conf == Outcome(stream[k], fast_mode).consensus.conf
           IN  /\ (\A i \in WinningAttempts(k) : UnitAttempts(k)[i].clipped)
                     => UnitLines(k)[1].conf = FinalConfidence(conf, TRUE)
               /\ (\A i \in WinningAttempts(k) : ~UnitAttempts(k)[i].clipped)
                     => UnitLines(k)[1].conf = conf

\* the whole working view of a unit, as a ROI
WholeView(u) == <<0, 0, WorkShape(u)[2], WorkShape(u)[1]>>

\* C14: when neither detector leaves a surviving ROI for the working view,
\* the ROI candidate list is exactly the rectangle (0, 0, width, height) of
\* the working view, and the frame is not abandoned: recognition is run on
\* that rectangle and the frame is answered.
C14_WholeViewFallback ==
    \A k \in 1..nread :
        (/\ stream[k].kind = "frame"
         /\ stream[k].decodable
         /\ SurvivingRois(stream[k], fast_mode) = <<>>)
        => /\ RoiCandidates(stream[k], fast_mode) = <<WholeView(stream[k])>>
           /\ (UnitFinished(k) /\ ~(k = nread /\ pc = "crashed"))
                 => /\ UnitAttempts(k) # <<>>
                    /\ UnitAttempts(k)[1].src = "roi"
                    /\ UnitAttempts(k)[1].roi = WholeView(stream[k])
                    /\ \A i \in 2..Len(UnitAttempts(k)) : UnitAttempts(k)[i].src # "roi"
                    /\ UnitLines(k) # <<>>

\* a frame without any ROI, after a frame with a text ROI: the whole view
\* was read and the frame got its blank line
C14_Witness ==
    /\ nread = 2
    /\ pc = "read"
    /\ stream[1] = TokenUnit
    /\ stream[2] = NoTextUnit
    /\ UnitAttempts(2)[1].roi = <<0, 0, ViewW, ViewH>>
    /\ UnitLines(2) = <<BlankLine>>

-----------------------------------------------------------------------------
(* inject_group_members, clean_docs.py 238-278.  The home page is the       *)
(* sequence of its lines (text.split("\n"), joined again on return); the    *)
(* docs tree is a function from a group directory to the member entries     *)
(* lines 266-270 format from collect_group_members.                         *)

BlankDocLine == ""
TitleLine == "# sage"
CryptoGroupLine == "- :material-format-section: [Crypto](Crypto/index.md)"
VaultGroupLine == "- :material-format-section: [Vault](Vault/index.md)"
FooMemberLine == "- :material-package: [Foo](Crypto/Foo.md) - A foo."
NestedMemberLine == "  - :material-package: [Bar](Vault/Bar.md) - A bar."

\* line 249: re.match(r"^-?\s*- :material-package:", l)
IsMemberLine(l) == l \in {FooMemberLine, NestedMemberLine}

\* lines 258-261: the group directory of a group line, "" when no match
GroupDir(l) ==
    IF l = CryptoGroupLine THEN "Crypto"
    ELSE IF l = VaultGroupLine THEN "Vault"
    ELSE ""

\* lines 253-270: the index after the last group line and the entries of
\* all group lines, in order
ScanGroups(lines, docs) ==
    LET Step[k \in 0..Len(lines)] ==
            IF k = 0 THEN [last |-> 0, members |-> <<>>]
            ELSE IF GroupDir(lines[k]) = "" THEN Step[k - 1]
                 ELSE [last |-> k,
                       members |-> Step[k - 1].members \o docs[GroupDir(lines[k])]]
    IN  Step[Len(lines)]

\* "\n".join(out), line 278, as the lines of the joined text: no line at
\* all joins to the empty text, which is one empty line
JoinedLines(ls) == IF ls = <<>> THEN <<BlankDocLine>> ELSE ls

\* lines 238-278
inject_group_members(text, docs) ==
    LET lines == SelectSeq(text, LAMBDA l : ~IsMemberLine(l))
        scan == ScanGroups(lines, docs)
    IN  JoinedLines(
            IF scan.members # <<>> /\ scan.last >= 1
            THEN SubSeq(lines, 1, scan.last) \o <<BlankDocLine>> \o scan.members
                 \o SubSeq(lines, scan.last + 1, Len(lines))
            ELSE lines)

\* Pages and docs trees of the checked calls
MaxLines == 3
DocLines ==
    {BlankDocLine, TitleLine, CryptoGroupLine, VaultGroupLine, FooMemberLine,
     NestedMemberLine}
HomePages == SeqsUpTo(DocLines, MaxLines) \ {<<>>}
DocsTrees ==
    {[Crypto |-> <<FooMemberLine>>, Vault |-> <<>>],
     [Crypto |-> <<>>, Vault |-> <<>>]}

InitInject ==
    /\ call \in {[op |-> "inject", stage |-> "in", text |-> t, docs |-> d,
                  once |-> <<>>, twice |-> <<>>] :
                    t \in HomePages, d \in DocsTrees}
    /\ lev = LevIdle
    /\ txt = TxtIdle
    /\ cons = ConsIdle
    /\ DriverIdle

\* main(), lines 352-366, run twice on the same tree
ApplyInject ==
    /\ call.op = "inject"
    /\ call.stage = "in"
    /\ call' = [call EXCEPT
                  !.once = inject_group_members(call.text, call.docs),
                  !.twice = inject_group_members(
                                inject_group_members(call.text, call.docs), call.docs),
                  !.stage = "done"]
    /\ UNCHANGED <<lev, txt, cons, driverVars>>

NextInject == ApplyInject

SpecInject == InitInject /\ [][NextInject]_vars

InjectDone == call.op = "inject" /\ call.stage = "done"

\* C22: with the docs tree unchanged, injecting into an injected page gives
\* the injected page
C22_InjectIdempotent ==
    InjectDone => call.twice = call.once

-----------------------------------------------------------------------------
(* run_ocr_on_crop, ocr.py 1042-1205.  A crop is a record: bright (what     *)
(* is_bright_on_dark gives for it, line 1044), big (min(h, w) >= 140, line  *)
(* 1054), quality (image_quality_score of the raw, enhanced and normalized  *)
(* variants) and engine (what the engine reads on each variant, by tag).    *)
(* A candidate is [results, combined, tag].                                 *)

\* combine_tokens, lines 562-593, for detections of one text row listed
\* from left to right
combine_tokens(results) ==
    Flatten([k \in 1..Len(results) |->
                IF strip(results[k].text) = <<>> \/ results[k].conf < 20 THEN <<>>
                ELSE strip(results[k].text)])

\* add_candidate(read_text(reader, image), tag), lines 1048-1050
EngineRead(crop, tag) ==
    [results |-> crop.engine[tag], combined |-> combine_tokens(crop.engine[tag]),
     tag |-> tag]

\* lines 1092-1097: the variants by decreasing quality, ties in the order
\* raw, enh, norm
QualityOrder(quality) ==
    LET tags == <<"raw", "enh", "norm">>
        before(i, j) == quality[i] > quality[j] \/ (quality[i] = quality[j] /\ i < j)
        rank(i) == 1 + Cardinality({j \in 1..3 : before(j, i)})
    IN  [r \in 1..3 |-> tags[CHOOSE i \in 1..3 : rank(i) = r]]

\* faulty variant: the binarized variant is read whenever the budget allows
NormalCalls_eager(crop, allow_bin_fallback, max_passes) ==
    LET order == QualityOrder(crop.quality)
        c1 == <<EngineRead(crop, order[1])>>
        c2 == IF max_passes >= 2 /\ ~IsGood(BestCandidate(c1))
              THEN Append(c1, EngineRead(crop, order[2])) ELSE c1
    IN  IF max_passes >= 3 /\ allow_bin_fallback
        THEN Append(c2, EngineRead(crop, "bin")) ELSE c2

\* lines 1092-1105: the engine calls of the normal regime
NormalCalls(crop, allow_bin_fallback, max_passes) ==
    LET order == QualityOrder(crop.quality)
        c1 == <<EngineRead(crop, order[1])>>
        c2 == IF max_passes >= 2 /\ ~IsGood(BestCandidate(c1))
              THEN Append(c1, EngineRead(crop, order[2])) ELSE c1
    IN  IF max_passes >= 3 /\ allow_bin_fallback /\ ~IsGood(BestCandidate(c2))
        THEN Append(c2, EngineRead(crop, "bin")) ELSE c2

\* line 1070: the best candidate so far calls for the relaxed readings
Escalates(cur_best) ==
    \/ ~IsGood(cur_best)
    \/ Len(cur_best.combined) < 15
    \/ candidate_confidence(cur_best.results) < 8800

\* faulty variant: the readings at the other scale are never made
BrightCalls_noalt(crop, allow_bin_fallback, max_passes) ==
    LET c2 == <<EngineRead(crop, "raw"), EngineRead(crop, "enh")>>
        c3 == IF max_passes >= 2 THEN Append(c2, EngineRead(crop, "inv")) ELSE c2
        c4 == IF max_passes >= 3 /\ allow_bin_fallback
              THEN Append(c3, EngineRead(crop, "REC")) ELSE c3
    IN  IF Escalates(BestCandidate(c4))
        THEN Append(c4, EngineRead(crop, "bright_relaxed")) ELSE c4

\* lines 1052-1078: the engine calls of the bright-on-dark regime.  The
\* variants of lines 1056-1058 and 1074 come from build_ocr_inputs on the
\* same crop, which is bright there too: the inverted variant is never None
BrightCalls(crop, allow_bin_fallback, max_passes) ==
    LET alt == IF crop.big THEN "3.0" ELSE "2.0"
        c2 == <<EngineRead(crop, "raw"), EngineRead(crop, "enh")>>
        c3 == IF max_passes >= 2 THEN Append(c2, EngineRead(crop, "inv")) ELSE c2
        c4 == IF max_passes >= 3 /\ allow_bin_fallback
              THEN Append(c3, EngineRead(crop, "REC")) ELSE c3
    IN  IF Escalates(BestCandidate(c4))
        THEN c4 \o <<EngineRead(crop, "bright_relaxed"),
                     [EngineRead(crop, "raw_s") EXCEPT !.tag = "raw_s" \o alt],
                     [EngineRead(crop, "enh_s") EXCEPT !.tag = "enh_s" \o alt],
                     [EngineRead(crop, "inv_s") EXCEPT !.tag = "inv_s" \o alt]>>
        ELSE c4

\* lines 1080-1090: the position vote over the readings of 8 characters or
\* more joins the candidates, with the results of the best of them
VoteStage(candidates) ==
    LET kept == SelectSeq(candidates,
                          LAMBDA c : Len(normalize_ocr_text(c.combined)) >= 8)
        vote_inputs == [k \in 1..Len(kept) |->
                           [text |-> normalize_ocr_text(kept[k].combined),
                            weight |-> Max2(1000, candidate_confidence(kept[k].results))]]
    IN  IF Len(kept) >= 2
        THEN Once(normalize_ocr_text(position_vote(vote_inputs)), LAMBDA voted :
                 IF voted # <<>>
                 THEN Append(candidates,
                             [results |-> BestCandidate(candidates).results,
                              combined |-> voted, tag |-> "vote"])
                 ELSE candidates)
        ELSE candidates

\* lines 1052-1105: the candidates when the engine calls are made
CropCandidates(crop, allow_bin_fallback, max_passes) ==
    IF crop.bright
    THEN VoteStage(BrightCalls(crop, allow_bin_fallback, max_passes))
    ELSE NormalCalls(crop, allow_bin_fallback, max_passes)

\* lines 1120-1124, REC_PIPELINE_BONUS (line 15) in units of 1/10000
NormCandidates(candidates) ==
    [k \in 1..Len(candidates) |->
        [results |-> candidates[k].results,
         combined |-> normalize_ocr_text(candidates[k].combined),
         bonus |-> IF candidates[k].tag = "REC" THEN 4500 ELSE 0,
         tag |-> candidates[k].tag]]

\* lines 1125-1137; weight in units of 1/100
ValidEntries(norm_candidates) ==
    LET entry(c) == [results |-> c.results, text |-> c.combined,
                     base |-> score_result(c.results, c.combined) + c.bonus,
                     conf |-> candidate_confidence(c.results),
                     weight |-> IF c.tag = "vote" THEN 45 ELSE 100]
        kept == SelectSeq(norm_candidates, LAMBDA c : c.combined # <<>>)
    IN  <<>> \o [k \in 1..Len(kept) |-> entry(kept[k])]

\* lines 1146-1165 for one entry: the first admitting cluster takes it (and
\* takes it as seed when its base is higher), else it opens a cluster
PlaceCropEntry(clusters, e) ==
    LET admitting == {c \in 1..Len(clusters) : CropAdmits(clusters[c].seed, e.text)}
    IN  IF admitting = {}
        THEN Append(clusters, [seed |-> e.text, best_base |-> e.base, items |-> <<e>>])
        ELSE LET c == CHOOSE c \in admitting : \A c2 \in admitting : c <= c2
                 old == clusters[c]
             IN  [clusters EXCEPT ![c] =
                     [seed |-> IF e.base > old.best_base THEN e.text ELSE old.seed,
                      best_base |-> IF e.base > old.best_base THEN e.base ELSE old.best_base,
                      items |-> Append(old.items, e)]]

RECURSIVE PlaceCropEntries(_, _)
PlaceCropEntries(entries, clusters) ==
    IF entries = <<>> THEN clusters
    ELSE Once(PlaceCropEntry(clusters, Head(entries)),
              LAMBDA placed : PlaceCropEntries(Tail(entries), placed))

\* lines 1144-1165
CropClusters(valid_entries) == PlaceCropEntries(SortByBaseDesc(valid_entries), <<>>)

\* lines 1170-1178 for one cluster: its voted text and its rank (1/10000)
CropClusterVoted(cluster) ==
    LET items == cluster.items
    IN  Once(position_vote(
                 [k \in 1..Len(items) |->
                     [text |-> items[k].text,
                      weight |-> Max2(500, items[k].conf) * Max2(1, Len(items[k].text))]]),
             LAMBDA v : Once(normalize_ocr_text(best_text_window(v)),
                             LAMBDA voted : IF voted = <<>> THEN cluster.seed ELSE voted))

CropClusterRank(cluster, voted) ==
    LET items == cluster.items
        n == Len(items)
        support == SumSeq([k \in 1..n |-> items[k].weight])
        peak_base == MaxOfSeq([k \in 1..n |-> items[k].base])
        avg_conf == SumSeq([k \in 1..n |-> items[k].conf * items[k].weight])
                    \div Max2(1, support)
    IN  peak_base + Min2(50000, Max2(0, support - 100) * 180)
        + (avg_conf * 11) \div 10 + (pattern_score(voted) * 12) \div 100

\* lines 1167-1181: the first cluster of maximal rank, with its voted text
RECURSIVE BestCropCluster(_, _, _)
BestCropCluster(clusters, c, best) ==
    IF c > Len(clusters) THEN best
    ELSE Once(CropClusterVoted(clusters[c]), LAMBDA voted :
         Once(CropClusterRank(clusters[c], voted), LAMBDA rank :
             IF rank > best.rank
             THEN BestCropCluster(clusters, c + 1,
                                  [cluster |-> c, voted |-> voted, rank |-> rank])
             ELSE BestCropCluster(clusters, c + 1, best)))

\* lines 1184-1195: the item of the cluster closest to the voted text
ChosenItem(items, combined) ==
    LET dist(k) ==
            LET max_dist == IF Max2(Len(combined), Len(items[k].text)) <= 18 THEN 2 ELSE 3
            IN  Min2(bounded_levenshtein(combined, items[k].text, max_dist), max_dist + 1)
        rk == <<>> \o [k \in 1..Len(items) |->
                          (items[k].base * 6) \div 100 + (items[k].conf * 18) \div 10
                          - dist(k) * 11000]
        k == CHOOSE k \in 1..Len(items) : \A m \in 1..Len(items) :
                 /\ rk[m] <= rk[k]
                 /\ (m < k => rk[m] < rk[k])
    IN  items[k]

\* lines 1197-1204: the consensus text replaces the voted text when near it
TieBreak(combined, consensus_text) ==
    IF consensus_text # <<>> /\ CropAdmits(combined, consensus_text)
    THEN consensus_text ELSE combined

\* max(norm_candidates, key=score + bonus), line 1140
BestNormCandidate(norm_candidates) ==
    LET sc == <<>> \o [k \in 1..Len(norm_candidates) |->
                          score_result(norm_candidates[k].results,
                                       norm_candidates[k].combined)
                          + norm_candidates[k].bonus]
        k == CHOOSE k \in 1..Len(norm_candidates) : \A m \in 1..Len(norm_candidates) :
                 /\ sc[m] <= sc[k]
                 /\ (m < k => sc[m] < sc[k])
    IN  norm_candidates[k]

\* lines 1042-1205.  Besides the pair the code returns, the record keeps
\* the engine calls in order (calls), the candidates, the entries and the
\* clusters of lines 1144-1165.
run_ocr_on_crop(crop, allow_bin_fallback, max_passes) ==
    Once(CropCandidates(crop, allow_bin_fallback, max_passes), LAMBDA candidates :
    Once(NormCandidates(candidates), LAMBDA norm_candidates :
    Once(ValidEntries(norm_candidates), LAMBDA valid_entries :
    Once(CropClusters(valid_entries), LAMBDA clusters :
    LET calls == SelectSeq(candidates, LAMBDA c : c.tag # "vote")
        seen == [calls |-> [k \in 1..Len(calls) |-> calls[k].tag],
                 candidates |-> candidates, entries |-> valid_entries,
                 clusters |-> clusters]
    IN  IF valid_entries = <<>>
        THEN seen @@ [results |-> BestNormCandidate(norm_candidates).results,
                      combined |-> BestNormCandidate(norm_candidates).combined]
        ELSE Once(BestCropCluster(clusters, 1,
                                  [cluster |-> 0, voted |-> <<>>, rank |-> -1000000000]),
                  LAMBDA best :
                      seen @@
                      [results |-> ChosenItem(clusters[best.cluster].items,
                                              best.voted).results,
                       combined |->
                           TieBreak(best.voted,
                                    select_consensus_candidate(norm_candidates).text)])))))

\* Readings of the engine: the token of the tests read well, its first 14
\* characters read well, the token with one character misread and lower
\* confidence, a longer reading of low confidence, and nothing
TokenRead == <<[text |-> ExampleToken, conf |-> 90]>>
ShortRead == <<[text |-> SubSeq(ExampleToken, 1, 14), conf |-> 90]>>
MisreadRead == <<[text |-> Misread(ExampleToken, 1), conf |-> 70]>>
LongLowRead == <<[text |-> ExampleToken \o <<"x">>, conf |-> 40]>>
NoRead == <<>>
EngineReads == {TokenRead, ShortRead, MisreadRead, LongLowRead, NoRead}

\* (allow_bin_fallback, max_passes) at the calls of run_ocr_on_crop: ocr.py
\* 1369-1371, 1380, 1389-1391, 1396-1398, 1410-1417, 1442-1444, 1468-1470
\* and test_ocr.py 256, 297
CallBudgets == {<<TRUE, 2>>, <<FALSE, 2>>, <<TRUE, 3>>, <<TRUE, 4>>}

NormalCrops ==
    {[bright |-> FALSE, big |-> FALSE, quality |-> q,
      engine |-> [raw |-> e[1], enh |-> e[2], norm |-> e[3], bin |-> e[4]]] :
        q \in {<<3, 2, 1>>, <<1, 2, 2>>, <<1, 1, 3>>},
        e \in {TokenRead, MisreadRead, LongLowRead, NoRead}
              \X {TokenRead, MisreadRead, LongLowRead, NoRead}
              \X {LongLowRead, NoRead} \X {TokenRead, NoRead}}
BrightCrops ==
    {[bright |-> TRUE, big |-> b, quality |-> <<1, 1, 1>>,
      engine |-> [raw |-> e[1], enh |-> e[2], inv |-> e[3], REC |-> e[4],
                  bright_relaxed |-> e[5], raw_s |-> e[5], enh_s |-> NoRead,
                  inv_s |-> e[5]]] :
        b \in BOOLEAN,
        e \in EngineReads \X {LongLowRead, NoRead} \X {MisreadRead, NoRead}
              \X {TokenRead, NoRead} \X {MisreadRead, NoRead}}

InitCrop ==
    /\ call \in {[op |-> "run_ocr_on_crop", stage |-> "in", crop |-> c,
                  allow_bin_fallback |-> b[1], max_passes |-> b[2], res |-> <<>>] :
                    c \in NormalCrops \cup BrightCrops, b \in CallBudgets}
            \ {[op |-> "run_ocr_on_crop", stage |-> "in", crop |-> c,
                 allow_bin_fallback |-> TRUE, max_passes |-> 4, res |-> <<>>] :
                    c \in BrightCrops}
    /\ lev = LevIdle
    /\ txt = TxtIdle
    /\ cons = ConsIdle
    /\ DriverIdle

ApplyRunOcr ==
    /\ call.op = "run_ocr_on_crop"
    /\ call.stage = "in"
    /\ call' = [call EXCEPT
                  !.res = run_ocr_on_crop(call.crop, call.allow_bin_fallback,
                                          call.max_passes),
                  !.stage = "done"]
    /\ UNCHANGED <<lev, txt, cons, driverVars>>

NextCrop == ApplyRunOcr

SpecCrop == InitCrop /\ [][NextCrop]_vars

CropDone == call.op = "run_ocr_on_crop" /\ call.stage = "done"

-----------------------------------------------------------------------------
(* Claims about run_ocr_on_crop (specification SpecCrop) *)

IsPrefix(s, t) == Len(s) <= Len(t) /\ s = SubSeq(t, 1, Len(s))

QualityOf(crop, tag) ==
    crop.quality[CHOOSE i \in 1..3 : <<"raw", "enh", "norm">>[i] = tag]

\* the first candidate of maximal score among the first n
BestOfFirst(candidates, n) == BestCandidate(SubSeq(candidates, 1, n))

ConsensusClustersOf(candidates) ==
    ConsensusClusters(SortByBaseDesc(ConsensusEntries(NormCandidates(candidates))), <<>>)

EachOnce(entries, clusters, Members(_)) ==
    \A e \in {entries[k] : k \in 1..Len(entries)} :
        Cardinality({k \in 1..Len(entries) : entries[k] = e})
        = SumSeq([c \in 1..Len(clusters) |->
                     Cardinality({k \in 1..Len(Members(clusters[c])) :
                                     Members(clusters[c])[k] = e})])

SeedIsFirst(cluster, members, Admits(_, _)) ==
    /\ cluster.seed = members[1].text
    /\ cluster.best_base = members[1].base
    /\ \A k \in 1..Len(members) : members[k].base <= members[1].base
    /\ \A k \in 2..Len(members) : Admits(members[1].text, members[k].text)

\* C26: in both clustering loops every non-empty normalized reading is in
\* exactly one cluster; the seed of a cluster is its first member, which has
\* the highest base score of the cluster, and every member passed the
\* distance test against that seed
C26_SeedNeverReplaced ==
    CropDone =>
        LET consensus == ConsensusClustersOf(call.res.candidates)
        IN  /\ EachOnce(call.res.entries, call.res.clusters, LAMBDA c : c.items)
            /\ \A c \in 1..Len(call.res.clusters) :
                  SeedIsFirst(call.res.clusters[c], call.res.clusters[c].items, CropAdmits)
            /\ EachOnce(ConsensusEntries(NormCandidates(call.res.candidates)),
                        consensus, LAMBDA c : c.variants)
            /\ \A c \in 1..Len(consensus) :
                  SeedIsFirst(consensus[c], consensus[c].variants,
                              LAMBDA seed, text : ConsensusAdmits(seed, text))

\* a cluster of both loops holds two members that do not pass the distance
\* test against each other
C26_Witness ==
    /\ CropDone
    /\ \E c \in 1..Len(call.res.clusters) :
          \E i, j \in 1..Len(call.res.clusters[c].items) :
              ~CropAdmits(call.res.clusters[c].items[i].text,
                          call.res.clusters[c].items[j].text)
    /\ LET consensus == ConsensusClustersOf(call.res.candidates)
       IN  \E c \in 1..Len(consensus) :
               \E i, j \in 1..Len(consensus[c].variants) :
                   /\ ~ConsensusAdmits(consensus[c].variants[i].text,
                                       consensus[c].variants[j].text)
                   /\ ~ConsensusAdmits(consensus[c].variants[j].text,
                                       consensus[c].variants[i].text)

-----------------------------------------------------------------------------
(* Claims about the recovery tiers of main() (specification Spec) *)

\* the early exit of pass 1, line 1376
EarlyExit(a) ==
    /\ is_good_candidate(a.results, a.combined)
    /\ candidate_confidence(a.results) >= 8600
    /\ Len(a.combined) >= 16

\* C25: when some ROI attempt of pass 1 satisfies the early-exit predicate,
\* whichever its index, no later tier runs for that frame: no fast-mode
\* retry, no mirrored crop, no expanded ROI, no rotation, no fallback view
C25_NoTierAfterEarlyExit ==
    \A k \in 1..nread :
        (/\ stream[k].kind = "frame"
         /\ \E i \in 1..Len(UnitAttempts(k)) :
               UnitAttempts(k)[i].src = "roi" /\ EarlyExit(UnitAttempts(k)[i]))
        => \A i \in 1..Len(UnitAttempts(k)) : UnitAttempts(k)[i].src = "roi"

-----------------------------------------------------------------------------
(* Specification SpecFinal: the final step of main, lines 1477-1494,        *)
(* applied to the candidate lists of one frame                              *)

MaxFinalNoise == 2

FinalTails == {<<>>, <<"_">>, <<"_", "7">>}

\* readings of one frame: a core with noise in front and a noise tail
FinalReadings == {p \o c \o q : p \in SeqsUpTo(NoiseAlphabet, MaxFinalNoise),
                                c \in Cores,
                                q \in FinalTails}

\* two-character readings of three passes that disagree in each position
VoteReadings == {<<p, q>> : p \in NoiseAlphabet, q \in NoiseAlphabet}

\* the candidate lists of a frame: one pass, two passes whose second
\* reading lost its first character, or three passes with short readings
FinalCandidates ==
       {<<ReadingCandidate(r, c)>> : r \in FinalReadings, c \in ConfLevels}
    \cup {<<ReadingCandidate(r, 80), ReadingCandidate(Tail(r), 80)>> :
             r \in FinalReadings \ {<<>>}}
    \cup {<<ReadingCandidate(x, 80), ReadingCandidate(y, 80), ReadingCandidate(z, 80)>> :
             x \in VoteReadings, y \in VoteReadings, z \in VoteReadings}

\* the frames whose ROI was marked clipped (line 1491): one pass reading a core
ClippedCandidates ==
    {<<ReadingCandidate(r, c)>> : r \in Cores, c \in ConfLevels \cup {0, 100}}

InitFinal ==
    /\ call \in {[op |-> "final", stage |-> "in", cands |-> cs, roi_clipped |-> FALSE,
                  consensus |-> [text |-> <<>>, conf |-> 0], lines |-> <<>>] :
                    cs \in FinalCandidates}
              \cup {[op |-> "final", stage |-> "in", cands |-> cs, roi_clipped |-> TRUE,
                     consensus |-> [text |-> <<>>, conf |-> 0], lines |-> <<>>] :
                       cs \in ClippedCandidates}
    /\ lev = LevIdle
    /\ txt = TxtIdle
    /\ cons = ConsIdle
    /\ DriverIdle

ApplyFinal ==
    /\ call.op = "final"
    /\ call.stage = "in"
    /\ call' = [call EXCEPT !.consensus = select_consensus_candidate(call.cands),
                            !.lines = FrameLines(call.cands, call.roi_clipped),
                            !.stage = "done"]
    /\ UNCHANGED <<lev, txt, cons, driverVars>>

NextFinal == ApplyFinal

SpecFinal == InitFinal /\ [][NextFinal]_vars

FinalDone == call.op = "final" /\ call.stage = "done"

\* C29: the text select_consensus_candidate returns is a fixed point of
\* best_text_window followed by normalize_ocr_text, and the token of the
\* FINAL line the frame writes is that text.
C29_ConsensusFixedPoint ==
    (FinalDone /\ call.consensus.text # <<>>) =>
        /\ normalize_ocr_text(best_text_window(call.consensus.text))
               = call.consensus.text
        /\ call.lines[1].kind = "FINAL"
        /\ call.lines[1].text = call.consensus.text

\* C29 witness: the reading had more than 18 characters, its best window held
\* a double underscore that the normalization collapsed, and the frame wrote
\* its FINAL line.
C29_Witness ==
    /\ FinalDone
    /\ call.consensus.text # <<>>
    /\ Len(sanitize_text(call.cands[1].combined)) > 18
    /\ HasDoubleUnderscore(best_text_window(call.cands[1].combined))
    /\ Len(call.lines) = 2

\* C28: every FINAL line has a non-empty token of ALLOWLIST characters
\* without two consecutive underscores, and a confidence between 0 and 1
\* (engine confidences being between 0 and 1).
C28_FinalLineWellFormed ==
    FinalDone =>
        \A k \in 1..Len(call.lines) :
            call.lines[k].kind = "FINAL" =>
                /\ call.lines[k].text # <<>>
                /\ \A i \in 1..Len(call.lines[k].text) :
                       InAllowlist(call.lines[k].text[i])
                /\ ~HasDoubleUnderscore(call.lines[k].text)
                /\ call.lines[k].conf \in 0..10000

\* C28 witness: the reading held a space and a double underscore, and the
\* frame wrote a FINAL line.
C28_Witness ==
    /\ FinalDone
    /\ Contains(call.cands[1].combined, " ")
    /\ HasDoubleUnderscore(call.cands[1].combined)
    /\ call.lines[1].kind = "FINAL"

-----------------------------------------------------------------------------
(* The candidate lists at the first max of main (line 1385) and of          *)
(* run_ocr_on_crop (lines 1068 and 1100)                                    *)

\* the engine calls run_ocr_on_crop has made when it first takes the best
\* candidate: all calls before the relaxed reading in the bright regime
\* (line 1068), the first call in the normal regime (line 1100)
CallsAtFirstMax(crop, allow_bin_fallback, max_passes) ==
    IF crop.bright
    THEN LET calls == BrightCalls(crop, allow_bin_fallback, max_passes)
             relaxed == {k \in 1..Len(calls) : calls[k].tag = "bright_relaxed"}
         IN  IF relaxed = {} THEN calls
             ELSE SubSeq(calls, 1, (CHOOSE k \in relaxed : TRUE) - 1)
    ELSE SubSeq(NormalCalls(crop, allow_bin_fallback, max_passes), 1, 1)

\* the regime and the number of candidates at the first max, for the crops
\* and budgets of the calls of run_ocr_on_crop
FirstMaxSizes ==
    {<<c.bright, Len(CallsAtFirstMax(c, b[1], b[2]))>> :
        c \in NormalCrops \cup BrightCrops, b \in CallBudgets}

\* the calls of pass 1 for unit k, lines 1364-1377
FirstPassAttempts(k) ==
    LET roi(a) == a.src = "roi"
    IN  SelectSeq(UnitAttempts(k), roi)

\* C27: for a decoded frame, pass 1 leaves at least one candidate, so the
\* whole-view retry of lines 1379-1382 is never executed and the max of line
\* 1385 has a non-empty list; run_ocr_on_crop has at least one candidate at
\* its first max, and at least two in the bright regime.
C27_MaxOnNonEmpty ==
    /\ \A k \in 1..nread :
           (/\ stream[k].kind = "frame"
            /\ stream[k].decodable
            /\ UnitFinished(k)
            /\ ~(k = nread /\ pc = "crashed"))
           => /\ FirstPassAttempts(k) # <<>>
              /\ UnitAttempts(k)[1].src = "roi"
              /\ \A i \in 1..Len(UnitAttempts(k)) : UnitAttempts(k)[i].src # "whole"
    /\ \A s \in FirstMaxSizes : s[2] >= (IF s[1] THEN 2 ELSE 1)

\* C27 witness: a frame whose only ROI is the whole view and reads nothing
\* finished in full mode: pass 1 left its one empty candidate and the later
\* passes ran on it.
C27_Witness ==
    /\ nread = 1
    /\ pc = "read"
    /\ ~fast_mode
    /\ stream[1] = NoTextUnit
    /\ Len(FirstPassAttempts(1)) = 1
    /\ FirstPassAttempts(1)[1].combined = <<>>
    /\ Len(UnitAttempts(1)) > 1

-----------------------------------------------------------------------------
(* Specification SpecMerge: lines 318-369 of find_text_roi, the surviving   *)
(* blobs of a mask and the row-merge loop over them                         *)

MaxMergeBlobs == 3

\* blobs of three text rows that chain (the third row comes within reach
\* only after the second was merged), a blob overlapping the first row, a
\* far blob, and a blob the filters of lines 320-331 drop
MergeBlobs ==
    {<<70, 50, 70, 8>>, <<30, 59, 30, 8>>, <<60, 72, 60, 8>>, <<100, 52, 60, 10>>,
     <<2, 20, 12, 6>>, <<150, 5, 3, 3>>}
MergeMasks ==
    {[h |-> ViewH, w |-> ViewW, blobs |-> b] : b \in DistinctSeqs(MergeBlobs, MaxMergeBlobs)}

\* lines 318-346: the surviving blobs by decreasing score
SurvivingBlobs(mask) ==
    SortByBlobScore(SelectSeq(mask.blobs, LAMBDA b : TextBlobPasses(mask, b)), mask)

BlobBox(b) == <<b[1], b[2], b[1] + b[3], b[2] + b[4]>>

InitMerge ==
    /\ call \in {[op |-> "merge_rows", stage |-> "in", mask |-> m,
                  candidates |-> <<>>, rounds |-> <<>>, merged |-> <<0, 0, 0, 0>>] :
                    m \in MergeMasks}
    /\ lev = LevIdle
    /\ txt = TxtIdle
    /\ cons = ConsIdle
    /\ DriverIdle

\* lines 346-369 on a mask with at least one surviving blob
ApplyMergeRows ==
    /\ call.op = "merge_rows"
    /\ call.stage = "in"
    /\ call' = Once(SurvivingBlobs(call.mask), LAMBDA candidates :
                  IF candidates = <<>>
                  THEN [call EXCEPT !.stage = "done"]
                  ELSE [call EXCEPT
                          !.candidates = candidates,
                          !.rounds = MergeRounds(candidates, BlobBox(candidates[1])),
                          !.merged = MergeRows(candidates, BlobBox(candidates[1])),
                          !.stage = "done"])
    /\ UNCHANGED <<lev, txt, cons, driverVars>>

NextMerge == ApplyMergeRows

SpecMerge == InitMerge /\ [][NextMerge]_vars

MergeDone == call.op = "merge_rows" /\ call.stage = "done" /\ call.candidates # <<>>

\* box a lies within box b
BoxWithin(a, b) == b[1] <= a[1] /\ b[2] <= a[2] /\ a[3] <= b[3] /\ a[4] <= b[4]

\* the bounding box of all blobs of a non-empty list
BoundingBox(candidates) ==
    LET n == 1..Len(candidates)
    IN  <<CHOOSE v \in {candidates[k][1] : k \in n} :
              \A k \in n : v <= candidates[k][1],
          CHOOSE v \in {candidates[k][2] : k \in n} :
              \A k \in n : v <= candidates[k][2],
          CHOOSE v \in {candidates[k][1] + candidates[k][3] : k \in n} :
              \A k \in n : v >= candidates[k][1] + candidates[k][3],
          CHOOSE v \in {candidates[k][2] + candidates[k][4] : k \in n} :
              \A k \in n : v >= candidates[k][2] + candidates[k][4]>>

\* C30: the row-merge loop ends after at most as many passes as there are
\* surviving blobs, every pass but the last strictly grows the merged box,
\* and the merged box contains the top-scoring blob and lies inside the
\* bounding box of the surviving blobs.
C30_MergeTerminates ==
    MergeDone =>
        LET rounds == call.rounds
            n == Len(rounds)
            before(i) == IF i = 1 THEN BlobBox(call.candidates[1]) ELSE rounds[i - 1].m
        IN  /\ 1 <= n
            /\ n <= Len(call.candidates)
            /\ \A i \in 1..n :
                   /\ BoxWithin(before(i), rounds[i].m)
                   /\ rounds[i].merged = (i < n)
                   /\ rounds[i].merged = (rounds[i].m # before(i))
            /\ call.merged = rounds[n].m
            /\ BoxWithin(BlobBox(call.candidates[1]), call.merged)
            /\ BoxWithin(call.merged, BoundingBox(call.candidates))

\* C30 witness: three rows, the third absorbed only in the second pass,
\* after the second row had brought it within reach; the third pass ends
\* the loop.
C30_Witness ==
    /\ MergeDone
    /\ Len(call.candidates) = 3
    /\ Len(call.rounds) = 3
    /\ call.merged = BoundingBox(call.candidates)

=============================================================================
